---- MODULE Spec2Model ----
(***************************************************************************)
(* The agent loop of chief: Loop.Run with its retry wrapper and one        *)
(* iteration (internal/loop), the agent driver goroutine RunAgent          *)
(* (internal/agent), the control methods Stop / Pause / Resume, and the    *)
(* callers that start a loop (server.handleAgentStart and the Manager).    *)
(*                                                                         *)
(* One Loop object is modelled.  The Run goroutine is a process whose      *)
(* position is pcL; the RunAgent goroutine of the current invocation is a  *)
(* process whose position is pcA.  The two talk over the buffered channel  *)
(* ch.  The consumer of l.events is taken to keep draining it, so a send   *)
(* on l.events is a step of its own that only records the event; what is   *)
(* kept of the events is the last one sent and some counters.              *)
(*                                                                         *)
(* Beside the loop (Spec), the module has a specification for each part    *)
(* that is looked at on its own: the store with the PRD file (StoreSpec),  *)
(* the paths of the tools (ToolSpec), commit and push (GitSpec), one       *)
(* invocation of RunAgent with its history (DriverSpec), the calls of      *)
(* tools.Execute (ExecSpec) and prd.Convert (ConvertSpec).  Each one       *)
(* leaves the variables of the others at their initial values.             *)
(***************************************************************************)
EXTENDS Integers, Sequences, FiniteSets, TLC

\* ---------------------------------------------------------------- bounds
\* the largest maxIter handed to NewLoop (the server passes loop.NewManager(10))
MaxIter == 2
\* stories of the PRD
NumStories == 1
\* text deltas the model sends in one agent invocation
MaxDeltas == 1
\* tool calls in one batch
MaxBatch == 2
\* chat rounds of one agent invocation in which the model asks for tools
MaxToolBatches == 1

\* ------------------------------------------------------ program constants
\* DefaultRetryConfig
MaxRetries == 3
RetryDelays == <<0, 5, 15>>
RetryEnabled == TRUE
\* agentOpts.MaxToolRounds in runIteration
MaxToolRounds == 50
\* make(chan AgentEvent, 64)
AgentChanCap == 64

Stories == 1..NumStories

VARIABLES
    \* Loop struct
    iteration, stopped, paused, cancelFunc, eventsClosed,
    \* ctx handed to Run, and the iterCtx derived from it in runIteration
    ctxDone, iterCtxDone,
    \* the Run goroutine: position and locals
    pcL, currentIter, attempt, iterErr, prePassMap, runExit, timerFired,
    \* runIterationWithRetry's lastErr: the kind of the error it is retrying
    lastErr,
    \* the RunAgent goroutine of the current invocation
    pcA, round, ch, chClosed, toolsLeft, deltasLeft, batchesLeft, toolCancelled,
    \* tool calls still to be run by agent goroutines whose stream nobody reads
    abandonedTools,
    \* the PRD file, the store, and the configuration of the instance
    filePasses, storePasses, hasStore, isGitRepo, maxIter,
    \* the Manager's instance
    mgrState, running,
    \* what is recorded of the events sent on l.events
    lastEvent, completes, lastIterStart, retryEvents, iterStarts,
    \* history needed to state the claims: the agent invocations of the iteration,
    \* the iteration during which Pause() was called, the iteration at which the
    \* resumed-from pause took effect, and where the loop was when Stop() was called
    agentCalls, pauseIter, resumedFrom, stopAt,
    \* the store (internal/db): the projects and user_stories tables, the PRD file of
    \* the project under test, the last operation and the PRD the last load returned
    projects, userStories, prdFile, op, loadedPRD,
    \* a tool call that writes: its file_path argument, the file written, and by what
    filePath, written, writer,
    \* the branch of the worktree: uncommitted changes, its head and the remote's (as
    \* numbers of commits), and the last git operation
    changes, localHead, remoteHead, gitOp,
    \* one invocation of RunAgent: the goroutine's position, its round, the effective
    \* opts.MaxToolRounds, its context, the tool calls of the round and the one being
    \* run, the ToolCallIDs of the tool messages appended after the assistant message
    \* of the round, the chat requests issued, the Error and Done events sent, the
    \* last event sent, the events the loop forwarded in the round, whether the last
    \* Execute returned an error, the text deltas left, the rounds that asked for tools
    drvPc, drvRound, maxToolRounds, drvCtxDone, toolCalls, tcIndex, toolMsgs,
    chatRequests, terminalEvents, lastAgentEvent, loopEvents, execErr, drvDeltas,
    toolRounds,
    \* one call of tools.Execute and what it came to
    execCall, execResult,
    \* prd.json of a PRD directory, and the last call of prd.Convert
    prdJson, convert,
    \* the server: the agent_logs table of the store (the project names that have log
    \* lines), the Manager's LoopInstance of the project under test, and what became
    \* of the worktree in the last handleAgentStart
    agentLogs, instance, worktreeResult,
    \* the TUI's WorktreeSpinner, and the steps it has been at since Configure
    spinner, visited,
    \* one streamed chat turn. ChatStream: the chunks scanned, the tool calls they
    \* brought, accumulatedToolCalls, the events on its channel, the channel closed.
    \* RunAgent: textBuilder, its toolCalls, whether it has received the Done event,
    \* the text deltas on its channel. runIteration: whether it has sent Complete
    scanned, arrived, accumulatedToolCalls, streamCh, streamClosed,
    textBuilder, collectedToolCalls, doneReceived, agentCh, completeSent

loopFields == <<iteration, stopped, paused, cancelFunc, eventsClosed>>
ctxVars    == <<ctxDone, iterCtxDone>>
runLocals  == <<pcL, currentIter, attempt, iterErr, prePassMap, runExit, timerFired>>
agentVars  == <<pcA, round, ch, chClosed, toolsLeft, deltasLeft, batchesLeft,
                toolCancelled, abandonedTools>>
envVars    == <<filePasses, storePasses, hasStore, isGitRepo, maxIter>>
mgrVars    == <<mgrState, running>>
evVars     == <<lastEvent, completes, lastIterStart, retryEvents, iterStarts>>
histVars   == <<agentCalls, pauseIter, resumedFrom, stopAt>>

storeVars  == <<projects, userStories, prdFile, op, loadedPRD>>

\* what the Loop and its manager do not touch
toolVars   == <<filePath, written, writer>>
gitVars    == <<changes, localHead, remoteHead, gitOp>>
driverVars == <<drvPc, drvRound, maxToolRounds, drvCtxDone, toolCalls, tcIndex, toolMsgs,
                chatRequests, terminalEvents, lastAgentEvent, loopEvents, execErr,
                drvDeltas, toolRounds>>
execVars == <<execCall, execResult>>
convertVars == <<prdJson, convert>>
streamVars == <<scanned, arrived, accumulatedToolCalls, streamCh, streamClosed,
                textBuilder, collectedToolCalls, doneReceived, agentCh, completeSent>>
sideVars == <<storeVars, toolVars, gitVars, driverVars, execVars, convertVars,
              agentLogs, instance, worktreeResult, spinner, visited, streamVars>>

vars == <<loopFields, ctxVars, runLocals, lastErr, agentVars, envVars, mgrVars, evVars,
          histVars, sideVars>>

\* ---------------------------------------------------------------- events
\* An Event of the loop.  allPass is not a field of the code's Event: it records
\* whether every story of the PRD, as the loop loads it, passed when the event was sent.
Event(t, it, rc, rm, e, ap) ==
    [type |-> t, iter |-> it, retryCount |-> rc, retryMax |-> rm, err |-> e, allPass |-> ap]

\* ------------------------------------------------------------------- PRD
\* Loop.loadPRD: the stories of the store when the loop has one, of the file otherwise
loadPRD == IF hasStore THEN storePasses ELSE filePasses

\* PRD.AllComplete: a project is complete iff every story has passes = true
AllComplete(p) == \A s \in Stories : p[s]

\* the Events the code builds; a Complete event gets the record of the PRD's state
Ev(t, it) == Event(t, it, 0, 0, "none", FALSE)
EvComplete(it) == Event("Complete", it, 0, 0, "none", \A s \in Stories : loadPRD[s])
EvErr(it, e) == Event("Error", it, 0, 0, e, FALSE)
EvRetry(it, rc, rm) == Event("Retrying", it, rc, rm, "none", FALSE)

\* l.events <- e, on an open channel
Send(e) ==
    /\ lastEvent' = e
    /\ completes' = IF e.type = "Complete" THEN completes + 1 ELSE completes
    /\ lastIterStart' = IF e.type = "IterationStart" THEN e.iter ELSE lastIterStart
    /\ iterStarts' = IF e.type = "IterationStart" THEN iterStarts + 1 ELSE iterStarts
    /\ retryEvents' = IF e.type = "Retrying" THEN retryEvents + 1
                      ELSE IF e.type = "IterationStart" THEN 0 ELSE retryEvents

\* iterCtx.Err() != nil: iterCtx is cancelled by its own cancel or by its parent
iterCtxErr == iterCtxDone \/ ctxDone

\* --------------------------------------------------------------- initial
\* the Loop after NewLoop, its manager's instance Ready, and the PRD it is given
LoopInit ==
    /\ iteration = 0 /\ stopped = FALSE /\ paused = FALSE
    /\ cancelFunc = FALSE /\ eventsClosed = FALSE
    /\ ctxDone = FALSE /\ iterCtxDone = FALSE
    /\ pcL = "idle" /\ currentIter = 0 /\ attempt = 0 /\ iterErr = FALSE
    /\ lastErr = "none"
    /\ prePassMap = [s \in Stories |-> FALSE] /\ runExit = "none" /\ timerFired = FALSE
    /\ pcA = "exited" /\ round = 0 /\ ch = <<>> /\ chClosed = FALSE
    /\ toolsLeft = 0 /\ deltasLeft = 0 /\ batchesLeft = 0 /\ toolCancelled = FALSE
    /\ abandonedTools = 0
    /\ filePasses \in [Stories -> BOOLEAN]
    /\ hasStore \in BOOLEAN
    /\ maxIter \in 0..MaxIter
    /\ storePasses = [s \in Stories |-> FALSE]
    /\ isGitRepo \in BOOLEAN
    /\ mgrState = "Ready" /\ running = 0
    /\ lastEvent = Event("none", 0, 0, 0, "none", FALSE)
    /\ completes = 0 /\ lastIterStart = 0 /\ retryEvents = 0
    /\ iterStarts = 0
    /\ agentCalls = 0 /\ pauseIter = 0 /\ resumedFrom = 0 /\ stopAt = "none"

\* ==================================================================== the store
\* projects in the store
NumProjects == 2
\* story identifiers
NumStoryIds == 2
\* titles, standing for the specification fields of a story
NumTitles == 2

Projects == 1..NumProjects
StoryIds == 1..NumStoryIds

\* the project whose PRD file is modelled; a project's id in the projects table is
\* its number
ThePRD == 1

\* db.StoryDB and prd.UserStory: the fields the code copies between them
StoryDB == [title : 1..NumTitles, passes : BOOLEAN, inProgress : BOOLEAN]

\* an operation on the store, with the project and the story it names
Op(n, p, i) == [name |-> n, project |-> p, id |-> i]

\* the state of the Loop, its agent and its manager
loopVars == <<loopFields, ctxVars, runLocals, lastErr, agentVars, envVars, mgrVars, evVars,
              histVars>>


\* Store.SaveProject, the ids it can return.  An insert returns the new row's id.  On
\* the ON CONFLICT(name) DO UPDATE path no row is inserted and res.LastInsertId() is
\* the row id of the connection's last insert, whatever its table was.
SaveProject(name) == IF name \in projects THEN Projects ELSE {name}

\* a SaveStory whose update leaves the progress fields of the row
SaveStory_KeepsProgress(tbl, projectID, id, story) ==
    IF id \in DOMAIN tbl
    THEN [tbl EXCEPT ![id].title = story.title]
    ELSE [i \in DOMAIN tbl \cup {id} |->
            IF i = id
            THEN [project_id  |-> projectID,
                  title       |-> story.title,
                  passes      |-> story.passes,
                  in_progress |-> story.inProgress]
            ELSE tbl[i]]

\* Store.SaveStory: INSERT ... ON CONFLICT(id) DO UPDATE; the update leaves project_id
SaveStory(tbl, projectID, id, story) ==
    IF id \in DOMAIN tbl
    THEN [tbl EXCEPT ![id] = [project_id  |-> tbl[id].project_id,
                              title       |-> story.title,
                              passes      |-> story.passes,
                              in_progress |-> story.inProgress]]
    ELSE [i \in DOMAIN tbl \cup {id} |->
            IF i = id
            THEN [project_id  |-> projectID,
                  title       |-> story.title,
                  passes      |-> story.passes,
                  in_progress |-> story.inProgress]
            ELSE tbl[i]]

\* Store.DeleteStory
DeleteStory(tbl, projectID, id) ==
    [i \in {j \in DOMAIN tbl : ~(tbl[j].project_id = projectID /\ j = id)} |-> tbl[i]]

\* Store.GetStories: the rows of the project
GetStories(tbl, projectID) ==
    [i \in {j \in DOMAIN tbl : tbl[j].project_id = projectID} |->
        [title |-> tbl[i].title, passes |-> tbl[i].passes, inProgress |-> tbl[i].in_progress]]

\* for _, story := range p.UserStories { store.SaveStory(projectID, ...) }
RECURSIVE SaveStories(_, _, _, _)
SaveStories(tbl, projectID, p, ids) ==
    IF ids = {}
    THEN tbl
    ELSE LET id == CHOOSE i \in ids : \A j \in ids : i <= j
         IN  SaveStories(SaveStory(tbl, projectID, id, p[id]), projectID, p, ids \ {id})

\* "Sync to DB": the PRD file is loaded, the project saved, then every story under
\* the id that SaveProject returned, which the operation records
SyncToStore(name, p, caller) ==
    \E projectID \in SaveProject(name) :
        /\ projects' = projects \cup {name}
        /\ userStories' = SaveStories(userStories, projectID, p, DOMAIN p)
        /\ op' = Op(caller, projectID, 0)

\* Server.handlePRDGet: the file's stories, with passes and in_progress of the stored
\* stories of the same identifier
PRDGet(name) ==
    LET p == prdFile
        stories == GetStories(userStories, name)
    IN  IF name \in projects /\ DOMAIN stories # {}
        THEN [i \in DOMAIN p |->
                IF i \in DOMAIN stories
                THEN [p[i] EXCEPT !.passes = stories[i].passes,
                                  !.inProgress = stories[i].inProgress]
                ELSE p[i]]
        ELSE p

\* Loop.loadPRD with a store: the stored stories of the project when the project is
\* in the store, the PRD file otherwise
StoreLoadPRD(name) ==
    IF name \in projects THEN GetStories(userStories, name) ELSE prdFile

\* the PRD file is written, by a tool call of the agent or by the conversion: a story
\* is added or rewritten, or a story is removed
WriteFile ==
    /\ \E id \in StoryIds :
         \/ \E story \in StoryDB :
              prdFile' = [i \in DOMAIN prdFile \cup {id} |->
                            IF i = id THEN story ELSE prdFile[i]]
         \/ prdFile' = [i \in DOMAIN prdFile \ {id} |-> prdFile[i]]
    /\ op' = Op("WriteFile", ThePRD, 0)
    /\ loadedPRD' = <<>>
    /\ UNCHANGED <<projects, userStories>>
    /\ UNCHANGED <<loopVars, toolVars, gitVars, driverVars, execVars, convertVars>>
    /\ UNCHANGED <<agentLogs, instance, worktreeResult, spinner, visited, streamVars>>

\* Server.handleAgentStart, its sync of the PRD file into the store
handleAgentStart_Sync ==
    /\ SyncToStore(ThePRD, prdFile, "handleAgentStart")
    /\ loadedPRD' = <<>>
    /\ UNCHANGED <<prdFile>>
    /\ UNCHANGED <<loopVars, toolVars, gitVars, driverVars, execVars, convertVars>>
    /\ UNCHANGED <<agentLogs, instance, worktreeResult, spinner, visited, streamVars>>

\* Loop.Run, its sync of the PRD file into the store after an iteration without error
Run_SyncStore ==
    /\ SyncToStore(ThePRD, prdFile, "Run")
    /\ loadedPRD' = <<>>
    /\ UNCHANGED <<prdFile>>
    /\ UNCHANGED <<loopVars, toolVars, gitVars, driverVars, execVars, convertVars>>
    /\ UNCHANGED <<agentLogs, instance, worktreeResult, spinner, visited, streamVars>>

\* Store.SaveProject, called for another project (the sync of that project's PRD)
Store_SaveProject ==
    \E name \in Projects \ {ThePRD} :
        /\ projects' = projects \cup {name}
        /\ op' = Op("SaveProject", name, 0)
        /\ loadedPRD' = <<>>
        /\ UNCHANGED <<userStories, prdFile>>
        /\ UNCHANGED <<loopVars, toolVars, gitVars, driverVars, execVars, convertVars>>
        /\ UNCHANGED <<agentLogs, instance, worktreeResult, spinner, visited, streamVars>>

\* Store.SaveStory, called with any story for another project of the store (the sync
\* of that project's PRD)
Store_SaveStory ==
    \E projectID \in projects \ {ThePRD}, id \in StoryIds, story \in StoryDB :
        /\ userStories' = SaveStory(userStories, projectID, id, story)
        /\ op' = Op("SaveStory", projectID, id)
        /\ loadedPRD' = <<>>
        /\ UNCHANGED <<projects, prdFile>>
        /\ UNCHANGED <<loopVars, toolVars, gitVars, driverVars, execVars, convertVars>>
        /\ UNCHANGED <<agentLogs, instance, worktreeResult, spinner, visited, streamVars>>

\* Server.handleStoryDelete: the story leaves the store, then the PRD file
handleStoryDelete ==
    \E id \in StoryIds :
        /\ userStories' = IF ThePRD \in projects
                          THEN DeleteStory(userStories, ThePRD, id)
                          ELSE userStories
        /\ prdFile' = [i \in DOMAIN prdFile \ {id} |-> prdFile[i]]
        /\ op' = Op("handleStoryDelete", ThePRD, id)
        /\ loadedPRD' = <<>>
        /\ UNCHANGED <<projects>>
        /\ UNCHANGED <<loopVars, toolVars, gitVars, driverVars, execVars, convertVars>>
        /\ UNCHANGED <<agentLogs, instance, worktreeResult, spinner, visited, streamVars>>

\* Server.handlePRDGet; the operation is marked when it follows a sync directly
handlePRDGet ==
    /\ loadedPRD' = PRDGet(ThePRD)
    /\ op' = Op(IF op.name \in {"handleAgentStart", "Run"}
                THEN "handlePRDGet after sync" ELSE "handlePRDGet", ThePRD, 0)
    /\ UNCHANGED <<projects, userStories, prdFile>>
    /\ UNCHANGED <<loopVars, toolVars, gitVars, driverVars, execVars, convertVars>>
    /\ UNCHANGED <<agentLogs, instance, worktreeResult, spinner, visited, streamVars>>

\* Loop.loadPRD: the pre-iteration snapshot and the completion check of Run
Loop_loadPRD ==
    /\ loadedPRD' = StoreLoadPRD(ThePRD)
    /\ op' = Op("loadPRD", ThePRD, 0)
    /\ UNCHANGED <<projects, userStories, prdFile>>
    /\ UNCHANGED <<loopVars, toolVars, gitVars, driverVars, execVars, convertVars>>
    /\ UNCHANGED <<agentLogs, instance, worktreeResult, spinner, visited, streamVars>>

\* ==================================================== the tools' file writes
\* components of a file_path argument
MaxPathLen == 3

\* the worktree path the loop is started with: its working directory
WorkDir == <<"wt">>


\* filepath.Clean of a rooted path: ".." leaves a directory, and stays at the root
RECURSIVE Clean(_, _)
Clean(done, rest) ==
    IF rest = <<>>
    THEN done
    ELSE Clean(IF Head(rest) = ".."
               THEN (IF done = <<>> THEN <<>> ELSE SubSeq(done, 1, Len(done) - 1))
               ELSE Append(done, Head(rest)),
               Tail(rest))

\* filepath.Join of a rooted directory and a path
Join(dir, comps) == Clean(<<>>, dir \o comps)

\* filepath.Dir
Dir(p) == SubSeq(p, 1, Len(p) - 1)

\* tools.resolvePath: an absolute path is taken as it is
resolvePath(path, workDir) ==
    IF path.abs THEN path.comps ELSE Join(workDir, path.comps)

\* the file that a path names is under a directory
Under(p, dir) == Len(p) > Len(dir) /\ SubSeq(p, 1, Len(dir)) = dir

\* os.WriteFile fails on a directory: the root and the worktree's directory are
IsDirectory(p) == p \in {<<>>, WorkDir}

\* the model asks for the next tool call, with any file_path: absolute or not, its
\* components the parent directory, the worktree's directory or a file
ToolCall ==
    /\ filePath' \in [abs : BOOLEAN,
                      comps : UNION {[1..n -> {"..", "wt", "f"}] : n \in 0..MaxPathLen}]
    /\ written' = <<>>
    /\ writer' = "none"
    /\ UNCHANGED <<loopVars, storeVars, gitVars, driverVars, execVars, convertVars>>
    /\ UNCHANGED <<agentLogs, instance, worktreeResult, spinner, visited, streamVars>>

\* tools.executeWrite: the file the path names is written
executeWrite ==
    /\ writer = "none"
    /\ LET path == Clean(<<>>, resolvePath(filePath, WorkDir))
       IN  IF IsDirectory(path)
           THEN written' = <<>> /\ writer' = "error"
           ELSE written' = path /\ writer' = "Write"
    /\ UNCHANGED <<filePath>>
    /\ UNCHANGED <<loopVars, storeVars, gitVars, driverVars, execVars, convertVars>>
    /\ UNCHANGED <<agentLogs, instance, worktreeResult, spinner, visited, streamVars>>

\* tools.executeEdit: the file is read, and written when it holds old_string
executeEdit ==
    /\ writer = "none"
    /\ LET path == Clean(<<>>, resolvePath(filePath, WorkDir))
       IN  \E found \in BOOLEAN :
             IF IsDirectory(path) \/ ~found
             THEN written' = <<>> /\ writer' = "error"
             ELSE written' = path /\ writer' = "Edit"
    /\ UNCHANGED <<filePath>>
    /\ UNCHANGED <<loopVars, storeVars, gitVars, driverVars, execVars, convertVars>>
    /\ UNCHANGED <<agentLogs, instance, worktreeResult, spinner, visited, streamVars>>

\* Loop.logLine: the loop writes the agent's text to ollama.log in the PRD directory
logLine ==
    /\ writer # "logLine"
    /\ written' = Join(Dir(<<"prds", "prd.json">>), <<"ollama.log">>)
    /\ writer' = "logLine"
    /\ UNCHANGED <<filePath>>
    /\ UNCHANGED <<loopVars, storeVars, gitVars, driverVars, execVars, convertVars>>
    /\ UNCHANGED <<agentLogs, instance, worktreeResult, spinner, visited, streamVars>>

\* ============================================================ commit and push
\* commits on the branch
MaxCommits == 6

\* a call of CommitAndPush, what it found and what it did
GitOp(n, clean, committed, pushed) ==
    [name |-> n, clean |-> clean, committed |-> committed, pushed |-> pushed]

\* a tool call changes a file of the worktree
Git_FileChanged ==
    /\ changes' = "unstaged"
    /\ gitOp' = GitOp("FileChanged", FALSE, FALSE, FALSE)
    /\ UNCHANGED <<localHead, remoteHead>>
    /\ UNCHANGED <<loopVars, storeVars, toolVars, driverVars, execVars, convertVars>>
    /\ UNCHANGED <<agentLogs, instance, worktreeResult, spinner, visited, streamVars>>

\* git.CommitAndPush: CommitAll (git add -A; nothing staged: no commit; git commit),
\* then PushBranch unless CommitAll failed.  A commit or a push can fail.
CommitAndPush ==
    \E commitOk \in BOOLEAN, pushOk \in BOOLEAN :
        LET staged == changes # "none"
            commits == staged /\ commitOk /\ localHead < MaxCommits
            commitAllErr == staged /\ ~commits
            pushes == ~commitAllErr /\ pushOk
            head == IF commits THEN localHead + 1 ELSE localHead
        IN  /\ changes' = IF commits THEN "none" ELSE IF staged THEN "staged" ELSE "none"
            /\ localHead' = head
            /\ remoteHead' = IF pushes THEN head ELSE remoteHead
            /\ gitOp' = GitOp("CommitAndPush", ~staged, commits, pushes)
            /\ UNCHANGED <<loopVars, storeVars, toolVars, driverVars, execVars, convertVars>>
            /\ UNCHANGED <<agentLogs, instance, worktreeResult, spinner, visited, streamVars>>

\* ====================================== agent.RunAgent and what the loop forwards
\* the largest opts.MaxToolRounds handed to RunAgent
MaxOptRounds == 2

\* RunAgent: "if opts.MaxToolRounds == 0 { opts.MaxToolRounds = 50 }"
DefaultMaxToolRounds == 50

\* tools.Execute as RunAgent sees it: an output, the empty output (a command that
\* prints nothing), an error encoded in the output string, or a fatal error (the
\* arguments fail to parse); a name outside the switch is a fatal error
ExecuteOutcomes(name) ==
    IF name = "Bash" THEN {"output", "empty", "toolError", "fatal"} ELSE {"fatal"}

\* an AgentEvent: the fields that RunAgent's consumers look at
AgentEvent(text, toolName, toolResult, err, done) ==
    [textDelta |-> text, toolName |-> toolName, toolResult |-> toolResult,
     err |-> err, done |-> done]

\* RunAgent: the result string of a tool call; a fatal error of Execute becomes
\* the text "Tool error: ..."
ResultString(outcome) ==
    CASE outcome = "output"    -> "out"
      [] outcome = "empty"     -> ""
      [] outcome = "toolError" -> "Error: ..."
      [] OTHER                 -> "Tool error: ..."

\* RunAgent: the ToolCallID of the tool message of a call
ToolID(tc) == IF tc.id = "" THEN tc.name ELSE tc.id

\* runIteration: the events the loop sends for one AgentEvent that is no error
Forward(e) ==
    (IF e.textDelta # "" THEN <<"AssistantText">> ELSE <<>>)
    \o (IF e.toolName # "" THEN <<"ToolStart">> ELSE <<>>)
    \o (IF e.toolResult # "" THEN <<"ToolResult">> ELSE <<>>)

\* a round limit that lets one round more through
RoundsLeft_OneMore(r, max) == r <= max

\* RunAgent: the condition of its round loop
RoundsLeft(r, max) == r < max

\* ch <- e: the event is sent and runIteration forwards it
Emit(e) ==
    /\ lastAgentEvent' = e
    /\ terminalEvents' = IF e.err # "none" \/ e.done THEN terminalEvents + 1
                         ELSE terminalEvents
    /\ loopEvents' = loopEvents \o Forward(e)

\* the goroutine returns: defer close(ch)
DriverExit == drvPc' = "closed"

\* the caller cancels the context of the invocation
Driver_CancelCtx ==
    /\ drvPc # "closed"
    /\ ~drvCtxDone
    /\ drvCtxDone' = TRUE
    /\ UNCHANGED <<drvPc, drvRound, maxToolRounds, toolCalls, tcIndex, toolMsgs,
                   chatRequests, terminalEvents, lastAgentEvent, loopEvents, execErr,
                   drvDeltas, toolRounds>>
    /\ UNCHANGED <<loopVars, storeVars, toolVars, gitVars, execVars, convertVars>>
    /\ UNCHANGED <<agentLogs, instance, worktreeResult, spinner, visited, streamVars>>

\* RunAgent, top of the round loop: the round limit, the check of the context,
\* then the chat request of the round
Driver_RoundCheck ==
    /\ drvPc = "roundCheck"
    /\ IF ~RoundsLeft(drvRound, maxToolRounds)
       THEN /\ Emit(AgentEvent("", "", "", "rounds", FALSE))
            /\ DriverExit
            /\ UNCHANGED <<chatRequests, toolCalls, toolMsgs>>
       ELSE IF drvCtxDone
       THEN /\ Emit(AgentEvent("", "", "", "ctx", FALSE))
            /\ DriverExit
            /\ UNCHANGED <<chatRequests, toolCalls, toolMsgs>>
       ELSE /\ drvPc' = "chat"
            /\ chatRequests' = chatRequests + 1
            /\ toolCalls' = <<>>
            /\ toolMsgs' = <<>>
            /\ loopEvents' = <<>>
            /\ UNCHANGED <<lastAgentEvent, terminalEvents>>
    /\ UNCHANGED <<drvRound, maxToolRounds, drvCtxDone, tcIndex, execErr, drvDeltas,
                   toolRounds>>
    /\ UNCHANGED <<loopVars, storeVars, toolVars, gitVars, execVars, convertVars>>
    /\ UNCHANGED <<agentLogs, instance, worktreeResult, spinner, visited, streamVars>>

\* RunAgent, a text delta of the chat stream is forwarded
Driver_TextDelta ==
    /\ drvPc = "chat"
    /\ drvDeltas > 0
    /\ drvDeltas' = drvDeltas - 1
    /\ Emit(AgentEvent("text", "", "", "none", FALSE))
    /\ UNCHANGED <<drvPc, drvRound, maxToolRounds, drvCtxDone, toolCalls, tcIndex,
                   toolMsgs, chatRequests, execErr, toolRounds>>
    /\ UNCHANGED <<loopVars, storeVars, toolVars, gitVars, execVars, convertVars>>
    /\ UNCHANGED <<agentLogs, instance, worktreeResult, spinner, visited, streamVars>>

\* RunAgent, the chat stream fails: the stream error is sent and the goroutine returns
Driver_StreamError ==
    /\ drvPc = "chat"
    /\ Emit(AgentEvent("", "", "", "stream", FALSE))
    /\ DriverExit
    /\ UNCHANGED <<drvRound, maxToolRounds, drvCtxDone, toolCalls, tcIndex, toolMsgs,
                   chatRequests, execErr, drvDeltas, toolRounds>>
    /\ UNCHANGED <<loopVars, storeVars, toolVars, gitVars, execVars, convertVars>>
    /\ UNCHANGED <<agentLogs, instance, worktreeResult, spinner, visited, streamVars>>

\* RunAgent, the chat stream ends: the assistant message with its tool calls joins
\* the history; no tool call ends the invocation with Done
Driver_StreamEnd ==
    /\ drvPc = "chat"
    \* the tool calls of the response, with the ids and the names the model gives
    \* them: Ollama may send no id, the model may repeat one, and it may name no tool
    /\ \E batch \in UNION {[1..n -> [id : {"", "a", "b"}, name : {"", "Bash"}]] :
                            n \in 0..MaxBatch} :
         /\ toolCalls' = batch
         /\ IF batch = <<>>
            THEN /\ Emit(AgentEvent("", "", "", "none", TRUE))
                 /\ DriverExit
                 /\ UNCHANGED <<tcIndex, toolRounds>>
            ELSE /\ drvPc' = "tools"
                 /\ tcIndex' = 1
                 /\ toolRounds' = toolRounds + 1
                 /\ UNCHANGED <<lastAgentEvent, terminalEvents, loopEvents>>
    /\ UNCHANGED <<drvRound, maxToolRounds, drvCtxDone, toolMsgs, chatRequests, execErr,
                   drvDeltas>>
    /\ UNCHANGED <<loopVars, storeVars, toolVars, gitVars, execVars, convertVars>>
    /\ UNCHANGED <<agentLogs, instance, worktreeResult, spinner, visited, streamVars>>

\* RunAgent, the next tool call of the batch: the event with its name
Driver_ToolStart ==
    /\ drvPc = "tools"
    /\ Emit(AgentEvent("", toolCalls[tcIndex].name, "", "none", FALSE))
    /\ drvPc' = "exec"
    /\ execErr' = FALSE
    /\ UNCHANGED <<drvRound, maxToolRounds, drvCtxDone, toolCalls, tcIndex, toolMsgs,
                   chatRequests, drvDeltas, toolRounds>>
    /\ UNCHANGED <<loopVars, storeVars, toolVars, gitVars, execVars, convertVars>>
    /\ UNCHANGED <<agentLogs, instance, worktreeResult, spinner, visited, streamVars>>

\* RunAgent, tools.Execute returns: the event with the result, the tool message of
\* the call; after the last call of the batch the next round begins
Driver_ToolFinish ==
    /\ drvPc = "exec"
    /\ \E outcome \in ExecuteOutcomes(toolCalls[tcIndex].name) :
         /\ execErr' = (outcome = "fatal")
         /\ Emit(AgentEvent("", "", ResultString(outcome), "none", FALSE))
    /\ toolMsgs' = Append(toolMsgs, ToolID(toolCalls[tcIndex]))
    /\ IF tcIndex = Len(toolCalls)
       THEN drvRound' = drvRound + 1 /\ drvPc' = "roundCheck" /\ tcIndex' = 0
       ELSE tcIndex' = tcIndex + 1 /\ drvPc' = "tools" /\ UNCHANGED drvRound
    /\ UNCHANGED <<maxToolRounds, drvCtxDone, toolCalls, chatRequests, drvDeltas,
                   toolRounds>>
    /\ UNCHANGED <<loopVars, storeVars, toolVars, gitVars, execVars, convertVars>>
    /\ UNCHANGED <<agentLogs, instance, worktreeResult, spinner, visited, streamVars>>

\* ============================================ tools.Execute, call by call
\* characters of a file's content, of old_string and of new_string
MaxContentLen == 3
MaxOldLen == 2
MaxNewLen == 1
\* lines of the file that Read slices, and the range of start_line and end_line
MaxLines == 3
MaxLineArg == 4

\* the strings of at most n characters
Strings(n) == UNION {[1..k -> {"a", "b"}] : k \in 0..n}

\* a call of tools.Execute with what it finds: whether the arguments parse, whether
\* the working directory is accessible, whether the file can be read and written,
\* the file's content and number of lines, and the arguments of Edit and of Read
ExecCall(tool, parseOk, workDirOk, readOk, writeOk, content, old, new, nLines, s, e) ==
    [tool |-> tool, parseOk |-> parseOk, workDirOk |-> workDirOk, readOk |-> readOk,
     writeOk |-> writeOk, content |-> content, oldString |-> old, newString |-> new,
     nLines |-> nLines, startLine |-> s, endLine |-> e]

NoCall == ExecCall("none", TRUE, TRUE, TRUE, TRUE, <<>>, <<>>, <<>>, 1, 0, 0)

\* what a call comes to: an output string, an error encoded in the output string, a
\* fatal error (the error value of Execute), or a panic; and the file afterwards
ExecResult(kind, after) == [kind |-> kind, fileAfter |-> after]

\* strings.Index: the first position (from 0) at which sub occurs in s from i on, or -1
RECURSIVE IndexFrom(_, _, _)
IndexFrom(s, sub, i) ==
    IF i + Len(sub) > Len(s) THEN -1
    ELSE IF SubSeq(s, i + 1, i + Len(sub)) = sub THEN i
    ELSE IndexFrom(s, sub, i + 1)

\* strings.Contains
Contains(s, sub) == IndexFrom(s, sub, 0) >= 0

\* the last position at which sub occurs in s, searching down from i, or -1
RECURSIVE LastIndexFrom(_, _, _)
LastIndexFrom(s, sub, i) ==
    IF i < 0 THEN -1
    ELSE IF SubSeq(s, i + 1, i + Len(sub)) = sub THEN i
    ELSE LastIndexFrom(s, sub, i - 1)

\* a replacement of the last occurrence
Replace_Last(s, old, new) ==
    LET i == LastIndexFrom(s, old, Len(s) - Len(old))
    IN  IF i < 0 THEN s
        ELSE SubSeq(s, 1, i) \o new \o SubSeq(s, i + Len(old) + 1, Len(s))

\* strings.Replace(s, old, new, 1): the first occurrence is replaced
Replace(s, old, new) ==
    LET i == IndexFrom(s, old, 0)
    IN  IF i < 0 THEN s
        ELSE SubSeq(s, 1, i) \o new \o SubSeq(s, i + Len(old) + 1, Len(s))

\* executeEdit
EditResult(c) ==
    IF ~c.parseOk THEN ExecResult("fatal", c.content)
    ELSE IF ~(c.workDirOk /\ c.readOk) THEN ExecResult("toolError", c.content)
    ELSE IF ~Contains(c.content, c.oldString) THEN ExecResult("toolError", c.content)
    ELSE IF ~c.writeOk THEN ExecResult("toolError", c.content)
    ELSE ExecResult("output", Replace(c.content, c.oldString, c.newString))

\* executeRead: lines[start:end] of the file's lines; Go panics on a slice
\* expression whose low index is above its high index
ReadResult(c) ==
    IF ~c.parseOk THEN ExecResult("fatal", c.content)
    ELSE IF ~(c.workDirOk /\ c.readOk) THEN ExecResult("toolError", c.content)
    ELSE IF c.startLine > 0 \/ c.endLine > 0
    THEN LET start == IF c.startLine - 1 < 0 THEN 0 ELSE c.startLine - 1
             end   == IF c.endLine <= 0 \/ c.endLine > c.nLines THEN c.nLines
                      ELSE c.endLine
         IN  IF start >= c.nLines THEN ExecResult("toolError", c.content)
             ELSE IF start > end THEN ExecResult("panic", c.content)
             ELSE ExecResult("output", c.content)
    ELSE ExecResult("output", c.content)

\* executeWrite, executeBash, executeGlob, executeGrep, executeList: the arguments
\* are parsed, and every later failure goes into the output string
OtherResult(c) ==
    IF ~c.parseOk THEN ExecResult("fatal", c.content)
    ELSE IF ~(c.workDirOk /\ c.writeOk) THEN ExecResult("toolError", c.content)
    ELSE ExecResult("output", c.content)

\* tools.Execute: the switch on the name
ExecuteResult(c) ==
    CASE c.tool = "Read"  -> ReadResult(c)
      [] c.tool = "Edit"  -> EditResult(c)
      [] c.tool = "Other" -> ExecResult("fatal", c.content)
      [] OTHER            -> OtherResult(c)

\* a call of Read with a file of n lines and any start_line and end_line
Execute_Read ==
    /\ execCall.tool = "none"
    /\ \E parseOk, workDirOk, readOk \in BOOLEAN, n \in 1..MaxLines,
          s, e \in -1..MaxLineArg :
         LET c == ExecCall("Read", parseOk, workDirOk, readOk, TRUE, <<>>, <<>>, <<>>,
                           n, s, e)
         IN  execCall' = c /\ execResult' = ExecuteResult(c)
    /\ UNCHANGED <<loopVars, storeVars, toolVars, gitVars, driverVars, convertVars>>
    /\ UNCHANGED <<agentLogs, instance, worktreeResult, spinner, visited, streamVars>>

\* a call of Edit on a file with some content
Execute_Edit ==
    /\ execCall.tool = "none"
    /\ \E parseOk, workDirOk, readOk, writeOk \in BOOLEAN,
          content \in Strings(MaxContentLen), old \in Strings(MaxOldLen),
          new \in Strings(MaxNewLen) :
         LET c == ExecCall("Edit", parseOk, workDirOk, readOk, writeOk, content, old,
                           new, 1, 0, 0)
         IN  execCall' = c /\ execResult' = ExecuteResult(c)
    /\ UNCHANGED <<loopVars, storeVars, toolVars, gitVars, driverVars, convertVars>>
    /\ UNCHANGED <<agentLogs, instance, worktreeResult, spinner, visited, streamVars>>

\* a call of another tool of the switch, or of a name that is no tool
Execute_Other ==
    /\ execCall.tool = "none"
    /\ \E tool \in {"Write", "Bash", "Glob", "Grep", "List", "Other"},
          parseOk, workDirOk, ok \in BOOLEAN :
         LET c == ExecCall(tool, parseOk, workDirOk, ok, ok, <<>>, <<>>, <<>>, 1, 0, 0)
         IN  execCall' = c /\ execResult' = ExecuteResult(c)
    /\ UNCHANGED <<loopVars, storeVars, toolVars, gitVars, driverVars, convertVars>>
    /\ UNCHANGED <<agentLogs, instance, worktreeResult, spinner, visited, streamVars>>

\* Execute has returned: RunAgent holds the result
Execute_Return ==
    /\ execCall.tool # "none"
    /\ execCall' = NoCall
    /\ UNCHANGED <<execResult>>
    /\ UNCHANGED <<loopVars, storeVars, toolVars, gitVars, driverVars, convertVars>>
    /\ UNCHANGED <<agentLogs, instance, worktreeResult, spinner, visited, streamVars>>

\* ===================================================== prd.Convert (prd.json)
\* the progress of a story: passes and inProgress
Progress == [passes : BOOLEAN, inProgress : BOOLEAN]

\* prd.json: a PRD that loads, with its user stories by id and their progress, or a
\* file that does not (missing, or no JSON)
JsonFile(valid, stories) == [valid |-> valid, stories |-> stories]
JsonFiles ==
    {JsonFile(TRUE, st) : st \in UNION {[ids -> Progress] : ids \in SUBSET StoryIds}}
    \cup {JsonFile(FALSE, <<>>)}

\* HasProgress: some story passes or is in progress
HasProgress(stories) ==
    \E id \in DOMAIN stories : stories[id].passes \/ stories[id].inProgress

\* MergeProgress: the stories of the new PRD, those with an id of the old PRD
\* with the old passes and inProgress
MergeProgress(old, new) ==
    [id \in DOMAIN new |-> IF id \in DOMAIN old THEN old[id] ELSE new[id]]

\* loadAndValidateConvertedPRD: the file loads and has user stories
ValidConverted(f) == f.valid /\ DOMAIN f.stories # {}

\* what is kept of a call of Convert: opts.Merge, the policy applied to the conflict
\* ("none" when there was no conflict), the error returned, the PRD the conversion
\* produced
ConvertOp(merge, choice, err, new) ==
    [merge |-> merge, choice |-> choice, err |-> err, new |-> new]

\* the choice of the conflict: opts.Merge, then opts.Force, then the user's answer
\* to promptProgressConflict (or its failure to read one)
Choices(merge, force) ==
    IF merge THEN {"merge"}
    ELSE IF force THEN {"overwrite"}
    ELSE {"merge", "overwrite", "cancel", "promptError"}

\* Convert: the existing prd.json is loaded; the conversion run writes prd.json (w1)
\* and, when that does not validate, the fix run writes it again (w2); then the
\* conflict with existing progress is settled and the normalized PRD is written.
Convert ==
    /\ \E merge, force, runOk, writeOk \in BOOLEAN, w1 \in JsonFiles :
       \E w2 \in IF ValidConverted(w1) \/ ~runOk THEN {w1} ELSE JsonFiles :
           LET old == prdJson
               hasProgress == old.valid /\ HasProgress(old.stories)
               new == w2.stories
           IN  IF ~runOk
               THEN /\ prdJson' = w1
                    /\ convert' = ConvertOp(merge, "none", "conversion", <<>>)
               ELSE IF ~ValidConverted(w2)
               THEN /\ prdJson' = w2
                    /\ convert' = ConvertOp(merge, "none", "invalid", <<>>)
               ELSE IF ~hasProgress
               THEN /\ prdJson' = IF writeOk THEN JsonFile(TRUE, new) ELSE w2
                    /\ convert' = ConvertOp(merge, "none",
                                            IF writeOk THEN "none" ELSE "write", new)
               ELSE \E choice \in Choices(merge, force) :
                      CASE choice = "promptError" ->
                             /\ prdJson' = w2
                             /\ convert' = ConvertOp(merge, "none", "prompt", new)
                        [] choice = "cancel" ->
                             /\ prdJson' = w2
                             /\ convert' = ConvertOp(merge, "cancel", "cancelled", new)
                        [] choice = "merge" ->
                             /\ prdJson' =
                                  IF writeOk
                                  THEN JsonFile(TRUE, MergeProgress(old.stories, new))
                                  ELSE w2
                             /\ convert' = ConvertOp(merge, "merge",
                                              IF writeOk THEN "none" ELSE "write", new)
                        [] OTHER ->
                             /\ prdJson' = IF writeOk THEN JsonFile(TRUE, new) ELSE w2
                             /\ convert' = ConvertOp(merge, "overwrite",
                                              IF writeOk THEN "none" ELSE "write", new)
    /\ UNCHANGED <<loopVars, storeVars, toolVars, gitVars, driverVars, execVars>>
    /\ UNCHANGED <<agentLogs, instance, worktreeResult, spinner, visited, streamVars>>

\* between conversions an iteration of the loop sets the progress of a story
Convert_StoryProgress ==
    /\ prdJson.valid
    /\ \E id \in DOMAIN prdJson.stories, p \in Progress :
         prdJson' = JsonFile(TRUE, [prdJson.stories EXCEPT ![id] = p])
    /\ convert' = ConvertOp(FALSE, "none", "none", <<>>)
    /\ UNCHANGED <<loopVars, storeVars, toolVars, gitVars, driverVars, execVars>>
    /\ UNCHANGED <<agentLogs, instance, worktreeResult, spinner, visited, streamVars>>

\* ================================ the server: worktree fallback, project deletion
\* the Manager's LoopInstance of a project: whether it is registered, its worktree
\* directory ("" for none), whether its loop is running, and the working directory
\* of the Loop that the last Start made
LoopInstance(registered, worktreeDir, isRunning, workDir) ==
    [registered |-> registered, worktreeDir |-> worktreeDir, running |-> isRunning,
     workDir |-> workDir]

\* Store.DeleteProject: when GetProject finds no row it returns nil and deletes
\* nothing; otherwise one transaction deletes the stories of the project's id, the
\* log lines of the name and the project row, and a failure rolls all of it back
DeleteProject(name, commits) ==
    IF name \notin projects
    THEN /\ op' = Op("DeleteProject", name, 0)
         /\ UNCHANGED <<projects, userStories, agentLogs>>
    ELSE IF commits
    THEN /\ userStories' = [i \in {j \in DOMAIN userStories :
                                     userStories[j].project_id # name} |-> userStories[i]]
         /\ agentLogs' = agentLogs \ {name}
         /\ projects' = projects \ {name}
         /\ op' = Op("DeleteProject", name, 0)
    ELSE /\ op' = Op("DeleteProjectFailed", name, 0)
         /\ UNCHANGED <<projects, userStories, agentLogs>>

\* Server.handleAgentStart, the whole handler: the sync of the PRD file when LoadPRD
\* succeeds, the worktree (none when the directory is no git repository or when
\* CreateWorktree fails), Register or UpdateWorktreeInfo, and Manager.Start, which
\* fails for a running instance and otherwise makes the Loop in the instance's
\* worktree directory, or in the base directory when it has none
handleAgentStart_Worktree ==
    \E loadOk \in BOOLEAN, isRepo \in BOOLEAN, created \in BOOLEAN :
        LET worktreePath == IF isRepo /\ created THEN "wt" ELSE ""
            registered ==
                IF ~instance.registered
                THEN LoopInstance(TRUE, worktreePath, FALSE, "none")
                ELSE IF worktreePath # ""
                THEN [instance EXCEPT !.worktreeDir = worktreePath]
                ELSE instance
        IN  /\ IF loadOk
               THEN SyncToStore(ThePRD, prdFile, "handleAgentStart")
               ELSE /\ op' = Op("handleAgentStart", 0, 0)
                    /\ UNCHANGED <<projects, userStories>>
            /\ worktreeResult' = IF ~isRepo THEN "norepo"
                                 ELSE IF created THEN "created" ELSE "failed"
            /\ instance' = IF registered.running
                           THEN registered
                           ELSE [registered EXCEPT
                                    !.running = TRUE,
                                    !.workDir = IF registered.worktreeDir # ""
                                                THEN registered.worktreeDir
                                                ELSE "base"]
            /\ loadedPRD' = <<>>
            /\ UNCHANGED <<prdFile, agentLogs>>
            /\ UNCHANGED <<loopVars, toolVars, gitVars, driverVars, execVars, convertVars>>
            /\ UNCHANGED <<spinner, visited, streamVars>>

\* the instance's Run returns: the instance is no longer running
Instance_RunExit ==
    /\ instance.running
    /\ instance' = [instance EXCEPT !.running = FALSE]
    /\ UNCHANGED <<agentLogs, worktreeResult>>
    /\ UNCHANGED <<loopVars, storeVars, toolVars, gitVars, driverVars, execVars, convertVars>>
    /\ UNCHANGED <<spinner, visited, streamVars>>

\* the server's event listener: Store.AddLog for an event of a project's loop; the
\* project under test has events once its loop was started
Server_AddLog ==
    \E name \in Projects :
        /\ name = ThePRD => instance.workDir # "none"
        /\ agentLogs' = agentLogs \cup {name}
        /\ op' = Op("AddLog", name, 0)
        /\ loadedPRD' = <<>>
        /\ UNCHANGED <<projects, userStories, prdFile, instance, worktreeResult>>
        /\ UNCHANGED <<loopVars, toolVars, gitVars, driverVars, execVars, convertVars>>
        /\ UNCHANGED <<spinner, visited, streamVars>>

\* Server.handlePRDDelete: Manager.Remove, Store.DeleteProject, whose error is only
\* logged, and the removal of the PRD directory
handlePRDDelete ==
    \E name \in Projects, commits \in BOOLEAN :
        /\ instance' = IF name = ThePRD THEN LoopInstance(FALSE, "", FALSE, "none") ELSE instance
        /\ DeleteProject(name, commits)
        /\ prdFile' = IF name = ThePRD THEN <<>> ELSE prdFile
        /\ loadedPRD' = <<>>
        /\ UNCHANGED worktreeResult
        /\ UNCHANGED <<loopVars, toolVars, gitVars, driverVars, execVars, convertVars>>
        /\ UNCHANGED <<spinner, visited, streamVars>>

\* ================================================== the TUI's WorktreeSpinner
\* AdvanceStep calls and animation frames after which the model stops counting
MaxStep == 5
MaxFrames == 2

\* WorktreeSpinnerStep
SpinnerStepCreateBranch == 0
SpinnerStepCreateWorktree == 1
SpinnerStepRunSetup == 2
SpinnerStepDone == 3

\* stepInfo, without its label
stepInfo(complete, active, errMsg) ==
    [complete |-> complete, active |-> active, errMsg |-> errMsg]

\* WorktreeSpinner.IsDone
IsDone(w) == w.currentStep >= SpinnerStepDone

\* WorktreeSpinner.Configure: two steps, a third when a setup command is given, the
\* first one active
Configure ==
    \E setupCommand \in {"", "npm install"} :
        /\ spinner' = [setupCommand |-> setupCommand,
                       currentStep |-> SpinnerStepCreateBranch,
                       spinnerFrame |-> 0,
                       steps |-> <<stepInfo(FALSE, TRUE, ""), stepInfo(FALSE, FALSE, "")>>
                                 \o (IF setupCommand # ""
                                     THEN <<stepInfo(FALSE, FALSE, "")>> ELSE <<>>),
                       errMsg |-> "",
                       cancelled |-> FALSE]
        /\ visited' = <<SpinnerStepCreateBranch>>
        /\ UNCHANGED <<loopVars, storeVars, toolVars, gitVars, driverVars, execVars>>
        /\ UNCHANGED <<convertVars, agentLogs, instance, worktreeResult, streamVars>>

\* WorktreeSpinner.AdvanceStep with the setup step never skipped
AdvanceStep_NoSkip ==
    /\ spinner.currentStep < MaxStep
    /\ LET idx == spinner.currentStep
           done == IF idx < Len(spinner.steps)
                   THEN [spinner.steps EXCEPT ![idx + 1].complete = TRUE,
                                              ![idx + 1].active = FALSE]
                   ELSE spinner.steps
           nextIdx == idx + 1
       IN  /\ spinner' = [spinner EXCEPT
                             !.currentStep = nextIdx,
                             !.steps = IF nextIdx < Len(done)
                                       THEN [done EXCEPT ![nextIdx + 1].active = TRUE]
                                       ELSE done]
           /\ visited' = IF visited = <<>> THEN visited ELSE Append(visited, nextIdx)
    /\ UNCHANGED <<loopVars, storeVars, toolVars, gitVars, driverVars, execVars>>
    /\ UNCHANGED <<convertVars, agentLogs, instance, worktreeResult, streamVars>>

\* WorktreeSpinner.AdvanceStep: the current step is complete and no longer active,
\* the next one, which is Done instead of RunSetup when there is no setup command,
\* becomes active if it is a step of the list
AdvanceStep ==
    /\ spinner.currentStep < MaxStep
    /\ LET idx == spinner.currentStep
           done == IF idx < Len(spinner.steps)
                   THEN [spinner.steps EXCEPT ![idx + 1].complete = TRUE,
                                              ![idx + 1].active = FALSE]
                   ELSE spinner.steps
           nextIdx == IF idx + 1 = SpinnerStepRunSetup /\ spinner.setupCommand = ""
                      THEN SpinnerStepDone
                      ELSE idx + 1
       IN  /\ spinner' = [spinner EXCEPT
                             !.currentStep = nextIdx,
                             !.steps = IF nextIdx < Len(done)
                                       THEN [done EXCEPT ![nextIdx + 1].active = TRUE]
                                       ELSE done]
           /\ visited' = IF visited = <<>> THEN visited ELSE Append(visited, nextIdx)
    /\ UNCHANGED <<loopVars, storeVars, toolVars, gitVars, driverVars, execVars>>
    /\ UNCHANGED <<convertVars, agentLogs, instance, worktreeResult, streamVars>>

\* WorktreeSpinner.SetError: the message, also on the current step, which is no
\* longer active
SetError ==
    /\ LET idx == spinner.currentStep
       IN  spinner' = [spinner EXCEPT
                         !.errMsg = "failed",
                         !.steps = IF idx < Len(spinner.steps)
                                   THEN [spinner.steps EXCEPT ![idx + 1].errMsg = "failed",
                                                              ![idx + 1].active = FALSE]
                                   ELSE spinner.steps]
    /\ UNCHANGED visited
    /\ UNCHANGED <<loopVars, storeVars, toolVars, gitVars, driverVars, execVars>>
    /\ UNCHANGED <<convertVars, agentLogs, instance, worktreeResult, streamVars>>

\* WorktreeSpinner.Tick and WorktreeSpinner.Cancel
Tick ==
    /\ spinner.spinnerFrame < MaxFrames
    /\ spinner' = [spinner EXCEPT !.spinnerFrame = @ + 1]
    /\ UNCHANGED visited
    /\ UNCHANGED <<loopVars, storeVars, toolVars, gitVars, driverVars, execVars>>
    /\ UNCHANGED <<convertVars, agentLogs, instance, worktreeResult, streamVars>>

Cancel ==
    /\ spinner' = [spinner EXCEPT !.cancelled = TRUE]
    /\ UNCHANGED visited
    /\ UNCHANGED <<loopVars, storeVars, toolVars, gitVars, driverVars, execVars>>
    /\ UNCHANGED <<convertVars, agentLogs, instance, worktreeResult, streamVars>>

\* ============================================== one streamed chat turn, by chunk
\* chunks of one response, tool calls in one chunk, characters of a chunk's content
MaxChunks == 3
MaxChunkCalls == 2
MaxChunkText == 2

\* "<chief-complete/>", as two characters of the model's alphabet
Marker == <<"a", "b">>

\* ollama.StreamEvent; the tool calls are named a and b
StreamEvent(textDelta, calls, done, err) ==
    [textDelta |-> textDelta, toolCalls |-> calls, done |-> done, err |-> err]

\* ChatStream keeping only the tool calls of the last chunk
Accumulate_Last(acc, calls) == calls

\* ChatStream: accumulatedToolCalls = append(accumulatedToolCalls, chunk.Message.ToolCalls...)
Accumulate(acc, calls) == acc \o calls

\* ChatStream, the body of its scanner loop for one line: a line that does not parse
\* sends an Error and ends the stream; otherwise the chunk's tool calls are collected,
\* its content is sent as a TextDelta, and a chunk with done sends the accumulated
\* tool calls, if any, then Done, and ends the stream
ChatStream_Chunk ==
    /\ ~streamClosed
    /\ scanned < MaxChunks
    /\ scanned' = scanned + 1
    /\ \E parses \in BOOLEAN, content \in Strings(MaxChunkText),
          calls \in Strings(MaxChunkCalls), done \in BOOLEAN :
         IF ~parses
         THEN /\ streamCh' = Append(streamCh, StreamEvent(<<>>, <<>>, FALSE, TRUE))
              /\ streamClosed' = TRUE
              /\ UNCHANGED <<arrived, accumulatedToolCalls>>
         ELSE LET acc == Accumulate(accumulatedToolCalls, calls)
              IN  /\ arrived' = arrived \o calls
                  /\ accumulatedToolCalls' = acc
                  /\ streamCh' =
                        streamCh
                        \o (IF content # <<>>
                            THEN <<StreamEvent(content, <<>>, FALSE, FALSE)>> ELSE <<>>)
                        \o (IF done /\ acc # <<>>
                            THEN <<StreamEvent(<<>>, acc, FALSE, FALSE)>> ELSE <<>>)
                        \o (IF done
                            THEN <<StreamEvent(<<>>, <<>>, TRUE, FALSE)>> ELSE <<>>)
                  /\ streamClosed' = done
    /\ UNCHANGED <<textBuilder, collectedToolCalls, doneReceived, agentCh, completeSent>>
    /\ UNCHANGED <<loopVars, storeVars, toolVars, gitVars, driverVars, execVars>>
    /\ UNCHANGED <<convertVars, agentLogs, instance, worktreeResult, spinner, visited>>

\* ChatStream: the scanner has no further line, after the end of the body or after a
\* read error, which is sent as an Error; the channel is closed
ChatStream_EOF ==
    /\ ~streamClosed
    /\ \E readErr \in BOOLEAN :
         streamCh' = IF readErr
                     THEN Append(streamCh, StreamEvent(<<>>, <<>>, FALSE, TRUE))
                     ELSE streamCh
    /\ streamClosed' = TRUE
    /\ UNCHANGED <<scanned, arrived, accumulatedToolCalls>>
    /\ UNCHANGED <<textBuilder, collectedToolCalls, doneReceived, agentCh, completeSent>>
    /\ UNCHANGED <<loopVars, storeVars, toolVars, gitVars, driverVars, execVars>>
    /\ UNCHANGED <<convertVars, agentLogs, instance, worktreeResult, spinner, visited>>

\* RunAgent, the body of "for event := range stream": an Error ends the round; a
\* TextDelta is added to textBuilder and sent on as an AgentEvent; ToolCalls are
\* appended to toolCalls; the Done field is not looked at
RunAgent_RangeStream ==
    /\ streamCh # <<>>
    /\ LET event == Head(streamCh)
       IN  /\ streamCh' = Tail(streamCh)
           /\ IF event.err
              THEN UNCHANGED <<textBuilder, agentCh, collectedToolCalls, doneReceived>>
              ELSE /\ textBuilder' = textBuilder \o event.textDelta
                   /\ agentCh' = IF event.textDelta # <<>>
                                 THEN Append(agentCh, event.textDelta)
                                 ELSE agentCh
                   /\ collectedToolCalls' = collectedToolCalls \o event.toolCalls
                   /\ doneReceived' = (doneReceived \/ event.done)
    /\ UNCHANGED <<scanned, arrived, accumulatedToolCalls, streamClosed, completeSent>>
    /\ UNCHANGED <<loopVars, storeVars, toolVars, gitVars, driverVars, execVars>>
    /\ UNCHANGED <<convertVars, agentLogs, instance, worktreeResult, spinner, visited>>

\* runIteration, the body of its range for a TextDelta: when the delta contains the
\* marker it sends Complete and returns
runIteration_TextDelta ==
    /\ ~completeSent
    /\ agentCh # <<>>
    /\ agentCh' = Tail(agentCh)
    /\ completeSent' = Contains(Head(agentCh), Marker)
    /\ UNCHANGED <<scanned, arrived, accumulatedToolCalls, streamCh, streamClosed>>
    /\ UNCHANGED <<textBuilder, collectedToolCalls, doneReceived>>
    /\ UNCHANGED <<loopVars, storeVars, toolVars, gitVars, driverVars, execVars>>
    /\ UNCHANGED <<convertVars, agentLogs, instance, worktreeResult, spinner, visited>>

\* ======================================================= the specifications
\* the parts a specification does not explore, at rest: every part but the one named
Parked(part) ==
    /\ IF part = "loop" THEN TRUE
       ELSE /\ LoopInit
            /\ hasStore /\ ~isGitRepo /\ maxIter = 0
            /\ filePasses = [s \in Stories |-> FALSE]
    /\ IF part = "store" THEN TRUE
       ELSE /\ projects = {}
            /\ userStories = <<>>
            /\ prdFile = <<>>
            /\ op = Op("none", 0, 0)
            /\ loadedPRD = <<>>
    /\ IF part = "tools" THEN TRUE
       ELSE /\ filePath = [abs |-> FALSE, comps |-> <<>>]
            /\ written = <<>>
            /\ writer = "idle"
    /\ IF part = "git" THEN TRUE
       ELSE /\ changes = "none"
            /\ localHead = 0
            /\ remoteHead = 0
            /\ gitOp = GitOp("none", FALSE, FALSE, FALSE)
    /\ IF part = "driver" THEN TRUE
       ELSE /\ drvPc = "closed" /\ drvRound = 0 /\ maxToolRounds = 0 /\ drvCtxDone = FALSE
            /\ toolCalls = <<>> /\ tcIndex = 0 /\ toolMsgs = <<>> /\ chatRequests = 0
            /\ terminalEvents = 0 /\ loopEvents = <<>>
            /\ lastAgentEvent = AgentEvent("", "", "", "none", FALSE)
            /\ execErr = FALSE /\ drvDeltas = 0 /\ toolRounds = 0
    /\ IF part = "exec" THEN TRUE
       ELSE /\ execCall = NoCall
            /\ execResult = ExecResult("none", <<>>)
    /\ IF part = "convert" THEN TRUE
       ELSE /\ prdJson = JsonFile(FALSE, <<>>)
            /\ convert = ConvertOp(FALSE, "none", "none", <<>>)
    /\ IF part = "server" THEN TRUE
       ELSE /\ agentLogs = {}
            /\ instance = LoopInstance(FALSE, "", FALSE, "none")
            /\ worktreeResult = "none"
    /\ IF part = "spinner" THEN TRUE
       ELSE /\ spinner = [setupCommand |-> "", currentStep |-> SpinnerStepCreateBranch,
                           spinnerFrame |-> 0, steps |-> <<>>, errMsg |-> "",
                           cancelled |-> FALSE]
            /\ visited = <<>>
    /\ IF part = "stream" THEN TRUE
       ELSE /\ scanned = 0 /\ arrived = <<>> /\ accumulatedToolCalls = <<>>
            /\ streamCh = <<>> /\ streamClosed = FALSE /\ textBuilder = <<>>
            /\ collectedToolCalls = <<>> /\ doneReceived = FALSE /\ agentCh = <<>>
            /\ completeSent = FALSE

\* the server's handlers, with the store empty and no instance registered; the PRD
\* file has no story or one
ServerSpecInit ==
    /\ projects = {}
    /\ userStories = <<>>
    /\ prdFile \in {<<>>, <<[title |-> 1, passes |-> FALSE, inProgress |-> FALSE]>>}
    /\ op = Op("none", 0, 0)
    /\ loadedPRD = <<>>
    /\ Parked("store")

ServerSpec ==
    /\ ServerSpecInit
    /\ [][\/ handleAgentStart_Worktree
          \/ Instance_RunExit
          \/ Server_AddLog
          \/ handlePRDDelete
          \/ Store_SaveProject]_vars

\* a chat request has been sent and its response is about to be scanned
StreamSpecInit == Parked("none")

StreamSpec ==
    /\ StreamSpecInit
    /\ [][\/ ChatStream_Chunk
          \/ ChatStream_EOF
          \/ RunAgent_RangeStream
          \/ runIteration_TextDelta]_vars

\* a new spinner
SpinnerSpecInit == Parked("none")

SpinnerSpec ==
    /\ SpinnerSpecInit
    /\ [][\/ Configure
          \/ AdvanceStep
          \/ SetError
          \/ Tick
          \/ Cancel]_vars

\* the store and the PRD file, with no loop running
StoreSpecInit ==
    /\ projects = {}
    /\ userStories = <<>>
    /\ prdFile \in UNION {[D -> StoryDB] : D \in SUBSET StoryIds}
    /\ op = Op("none", 0, 0)
    /\ loadedPRD = <<>>
    /\ Parked("store")

StoreSpec ==
    /\ StoreSpecInit
    /\ [][\/ WriteFile
          \/ handleAgentStart_Sync
          \/ Run_SyncStore
          \/ Store_SaveProject
          \/ Store_SaveStory
          \/ handleStoryDelete
          \/ handlePRDGet
          \/ Loop_loadPRD]_vars

\* the tool calls that write, and the loop's log
\* no tool call yet
ToolSpecInit == Parked("none")

ToolSpec ==
    /\ ToolSpecInit
    /\ [][\/ ToolCall
          \/ executeWrite
          \/ executeEdit
          \/ logLine]_vars

\* the branch of the worktree and its remote
GitSpecInit ==
    /\ changes \in {"none", "unstaged"}
    /\ localHead = 0
    /\ remoteHead = 0
    /\ gitOp = GitOp("none", FALSE, FALSE, FALSE)
    /\ Parked("git")

GitSpec ==
    /\ GitSpecInit
    /\ [][\/ Git_FileChanged
          \/ CommitAndPush]_vars

\* one invocation of RunAgent, with the loop's forwarding of its events
DriverSpecInit ==
    /\ drvPc = "roundCheck" /\ drvRound = 0 /\ drvCtxDone = FALSE
    /\ \E o \in 0..MaxOptRounds :
         maxToolRounds = IF o = 0 THEN DefaultMaxToolRounds ELSE o
    /\ toolCalls = <<>> /\ tcIndex = 0 /\ toolMsgs = <<>> /\ chatRequests = 0
    /\ terminalEvents = 0 /\ loopEvents = <<>>
    /\ lastAgentEvent = AgentEvent("", "", "", "none", FALSE)
    /\ execErr = FALSE /\ drvDeltas = MaxDeltas /\ toolRounds = 0
    /\ Parked("driver")

DriverSpec ==
    /\ DriverSpecInit
    /\ [][\/ Driver_CancelCtx
          \/ Driver_RoundCheck
          \/ Driver_TextDelta
          \/ Driver_StreamError
          \/ Driver_StreamEnd
          \/ Driver_ToolStart
          \/ Driver_ToolFinish]_vars

\* the calls of tools.Execute, one at a time
\* no call of Execute yet
ExecSpecInit == Parked("exec") /\ execCall = NoCall /\ execResult = ExecResult("none", <<>>)

ExecSpec ==
    /\ ExecSpecInit
    /\ [][\/ Execute_Read
          \/ Execute_Edit
          \/ Execute_Other
          \/ Execute_Return]_vars

\* the conversions of a PRD directory
ConvertSpecInit ==
    /\ prdJson \in {f \in JsonFiles : ~HasProgress(f.stories)}
    /\ convert = ConvertOp(FALSE, "none", "none", <<>>)
    /\ Parked("convert")

ConvertSpec ==
    /\ ConvertSpecInit
    /\ [][\/ Convert
          \/ Convert_StoryProgress]_vars

Init == LoopInit /\ Parked("loop")

\* ------------------------------------------------------- control methods
\* Loop.Stop: sets the flag and cancels the current agent run, if there is one
Stop ==
    /\ stopped' = TRUE
    /\ iterCtxDone' = (iterCtxDone \/ cancelFunc)
    /\ UNCHANGED paused

\* a Pause that cancels the agent run the way Stop does
Pause_Cancelling ==
    /\ paused' = TRUE
    /\ iterCtxDone' = (iterCtxDone \/ cancelFunc)
    /\ UNCHANGED stopped

\* Loop.Pause: sets the flag only
Pause ==
    /\ paused' = TRUE
    /\ UNCHANGED <<stopped, iterCtxDone>>

\* Loop.Resume: clears the flag
Resume ==
    /\ paused' = FALSE
    /\ UNCHANGED <<stopped, iterCtxDone>>


\* ------------------------------------------------------------ the Manager
\* a start(name) that is never refused
ManagerStartAllowed_Always == TRUE

\* start(name) is refused unless the instance is Ready, Paused or in Error
ManagerStartAllowed == mgrState \in {"Ready", "Paused", "Error"}

\* start(name): a start from Paused is the resume; a background task runs Loop.Run
ManagerStart ==
    /\ resumedFrom' = IF mgrState = "Paused" THEN iteration ELSE 0
    /\ IF mgrState = "Paused" THEN Resume ELSE UNCHANGED <<paused, stopped, iterCtxDone>>
    /\ mgrState' = "Running"
    /\ running' = running + 1
    /\ pcL' = "open"
    /\ completes' = 0
    /\ pauseIter' = IF mgrState = "Paused" THEN 0 ELSE pauseIter

\* Server.handleAgentStart: syncs the PRD file into the store, then starts through
\* the manager; a refused start is answered with an error and nothing is run
handleAgentStart ==
    /\ pcL # "panic"
    /\ storePasses' = IF hasStore THEN filePasses ELSE storePasses
    /\ IF ManagerStartAllowed
       THEN ManagerStart
       ELSE UNCHANGED <<resumedFrom, paused, stopped, iterCtxDone, mgrState, running,
                        pcL, completes, pauseIter>>
    /\ UNCHANGED sideVars
    /\ UNCHANGED lastErr
    /\ UNCHANGED <<iteration, cancelFunc, eventsClosed, ctxDone, currentIter, attempt,
                   iterErr, prePassMap, runExit, timerFired, agentVars, filePasses,
                   hasStore, isGitRepo, maxIter, lastEvent, lastIterStart, retryEvents,
                   iterStarts,
                   agentCalls, stopAt>>

\* pause(name): only a Running instance is paused
ManagerPause ==
    /\ pcL # "panic"
    /\ mgrState = "Running"
    /\ ~paused
    /\ Pause
    /\ pauseIter' = iteration
    /\ UNCHANGED sideVars
    /\ UNCHANGED lastErr
    /\ UNCHANGED <<iteration, cancelFunc, eventsClosed, ctxDone, runLocals, agentVars,
                   envVars, mgrVars, evVars, agentCalls, resumedFrom, stopAt>>

\* a stop(name) that is never refused
ManagerStopAllowed_Always == TRUE

\* stop(name) is refused unless the instance is Running or Paused
ManagerStopAllowed == mgrState \in {"Running", "Paused"}

\* stop(name): a Running or Paused instance is stopped
ManagerStop ==
    /\ pcL # "panic"
    /\ ManagerStopAllowed
    /\ Stop
    /\ mgrState' = "Stopped"
    /\ stopAt' = CASE pcA = "toolExec"  -> "tool"
                  [] pcL = "retryWait" -> "wait"
                  [] OTHER             -> "other"
    /\ UNCHANGED sideVars
    /\ UNCHANGED lastErr
    /\ UNCHANGED <<iteration, cancelFunc, eventsClosed, ctxDone, runLocals, agentVars,
                   envVars, running, evVars, agentCalls, pauseIter, resumedFrom>>

\* the background task of start(name), once Run has returned
ManagerRunExit ==
    /\ pcL = "returned"
    /\ pcL' = "idle"
    /\ running' = running - 1
    /\ mgrState' = IF mgrState = "Stopped" THEN "Stopped"
                   ELSE CASE runExit \in {"error", "logfile"} -> "Error"
                          [] runExit = "complete" -> "Complete"
                          [] runExit = "paused"   -> "Paused"
                          [] OTHER                -> "Stopped"
    /\ UNCHANGED sideVars
    /\ UNCHANGED lastErr
    /\ UNCHANGED <<loopFields, ctxVars, currentIter, attempt, iterErr, prePassMap, runExit,
                   timerFired, agentVars, envVars, evVars, histVars>>

\* the owner of the context handed to Run cancels it
CancelCtx ==
    /\ pcL \notin {"idle", "panic"}
    /\ ~ctxDone
    /\ ctxDone' = TRUE
    /\ UNCHANGED sideVars
    /\ UNCHANGED lastErr
    /\ UNCHANGED <<loopFields, iterCtxDone, runLocals, agentVars, envVars, mgrVars,
                   evVars, histVars>>

\* ---------------------------------------------------- Loop.Run, goroutine
\* a return of Run: the deferred close(l.events); closing a closed channel panics
Return(reason) ==
    IF eventsClosed
    THEN pcL' = "panic" /\ UNCHANGED <<eventsClosed, runExit>>
    ELSE eventsClosed' = TRUE /\ pcL' = "returned" /\ runExit' = reason

\* Run, on an error of runIterationWithRetry: the Error event, then the return
RunFails(e, reason) ==
    /\ Send(EvErr(0, e))
    /\ Return(reason)

\* Run opens the log file of the PRD directory: when that fails it returns the error,
\* before the close of l.events is deferred
Run_OpenLog ==
    /\ pcL = "open"
    /\ \E opened \in BOOLEAN :
         IF opened
         THEN pcL' = "top" /\ runExit' = "none"
         ELSE pcL' = "returned" /\ runExit' = "logfile"
    /\ UNCHANGED sideVars
    /\ UNCHANGED lastErr
    /\ UNCHANGED <<loopFields, ctxVars, currentIter, attempt, iterErr, prePassMap,
                   timerFired, agentVars, envVars, mgrVars, evVars, histVars>>

\* Run, top of the for loop: the loop ends when it is stopped or paused
RunTopReturns == stopped \/ paused

\* Run, top of the for loop, under l.mu
Run_Top ==
    /\ pcL = "top"
    /\ IF RunTopReturns
       THEN /\ Return(IF stopped THEN "stopped" ELSE "paused")
            /\ UNCHANGED <<iteration, currentIter, agentCalls>>
       ELSE /\ iteration' = iteration + 1
            /\ currentIter' = iteration + 1
            /\ agentCalls' = 0
            /\ pcL' = "iterStart"
            /\ UNCHANGED <<eventsClosed, runExit>>
    /\ UNCHANGED sideVars
    /\ UNCHANGED lastErr
    /\ UNCHANGED <<stopped, paused, cancelFunc, ctxVars, attempt, iterErr, prePassMap,
                   timerFired, agentVars, envVars, mgrVars, evVars, pauseIter,
                   resumedFrom, stopAt>>

\* a cap check that lets one iteration more through
MaxIterReached_OneLate(c) == c > maxIter + 1

\* Run: "Check if max iterations reached"
MaxIterReached(c) == c > maxIter

\* Run: the iteration cap, the IterationStart event, the snapshot of the stories.
\* A send on l.events after an earlier Run closed it panics.
Run_IterStart ==
    /\ pcL = "iterStart"
    /\ IF eventsClosed
       THEN /\ pcL' = "panic"
            /\ UNCHANGED <<evVars, prePassMap, attempt, runExit, eventsClosed>>
       ELSE IF MaxIterReached(currentIter)
       THEN /\ Send(Ev("MaxIterationsReached", currentIter - 1))
            /\ Return("maxiter")
            /\ UNCHANGED <<prePassMap, attempt>>
       ELSE /\ Send(Ev("IterationStart", currentIter))
            /\ prePassMap' = loadPRD
            /\ attempt' = 0
            /\ pcL' = "retryTop"
            /\ UNCHANGED <<runExit, eventsClosed>>
    /\ lastErr' = IF ~eventsClosed /\ ~MaxIterReached(currentIter) THEN "none" ELSE lastErr
    /\ UNCHANGED sideVars
    /\ UNCHANGED <<iteration, stopped, paused, cancelFunc, ctxVars, currentIter, iterErr,
                   timerFired, agentVars, envVars, mgrVars, histVars>>

\* a for loop that allows one attempt more
RetryLoopCond_OneMore(a) == a <= MaxRetries + 1

\* runIterationWithRetry: the condition of its for loop
RetryLoopCond(a) == a <= MaxRetries

\* runIterationWithRetry: the delay before retry number a
RetryDelay(a) ==
    LET delayIdx == IF a - 1 >= Len(RetryDelays) THEN Len(RetryDelays) - 1 ELSE a - 1
    IN  RetryDelays[delayIdx + 1]

\* runIterationWithRetry, top of the for loop: out of attempts, or the Retrying
\* event of a retry and the start of its delay
runIterationWithRetry_Top ==
    /\ pcL = "retryTop"
    /\ IF ~RetryLoopCond(attempt)
       THEN RunFails("retries", "error") /\ UNCHANGED timerFired
       ELSE IF attempt > 0 /\ ~RetryEnabled
       THEN RunFails("agent", "error") /\ UNCHANGED timerFired
       ELSE IF attempt > 0
       THEN /\ Send(EvRetry(iteration, attempt, MaxRetries))
            /\ IF RetryDelay(attempt) > 0
               THEN pcL' = "retryWait" /\ timerFired' = FALSE
               ELSE pcL' = "stopCheck" /\ UNCHANGED timerFired
            /\ UNCHANGED <<runExit, eventsClosed>>
       ELSE /\ pcL' = "stopCheck"
            /\ UNCHANGED <<evVars, runExit, eventsClosed, timerFired>>
    /\ UNCHANGED sideVars
    /\ UNCHANGED lastErr
    /\ UNCHANGED <<iteration, stopped, paused, cancelFunc, ctxVars, currentIter, attempt,
                   iterErr, prePassMap, agentVars, envVars, mgrVars, histVars>>

\* time.After(delay): the delay elapses
TimeAfter ==
    /\ pcL = "retryWait"
    /\ ~timerFired
    /\ timerFired' = TRUE
    /\ UNCHANGED sideVars
    /\ UNCHANGED lastErr
    /\ UNCHANGED <<loopFields, ctxVars, pcL, currentIter, attempt, iterErr, prePassMap,
                   runExit, agentVars, envVars, mgrVars, evVars, histVars>>

\* runIterationWithRetry, the select of the wait: case <-time.After(delay)
runIterationWithRetry_WaitTimer ==
    /\ pcL = "retryWait"
    /\ timerFired
    /\ pcL' = "stopCheck"
    /\ UNCHANGED sideVars
    /\ UNCHANGED lastErr
    /\ UNCHANGED <<loopFields, ctxVars, currentIter, attempt, iterErr, prePassMap,
                   runExit, timerFired, agentVars, envVars, mgrVars, evVars, histVars>>

\* runIterationWithRetry, the select of the wait: case <-ctx.Done(), return ctx.Err()
runIterationWithRetry_WaitCtx ==
    /\ pcL = "retryWait"
    /\ ctxDone
    /\ RunFails("ctx", "ctx")
    /\ UNCHANGED sideVars
    /\ UNCHANGED lastErr
    /\ UNCHANGED <<iteration, stopped, paused, cancelFunc, ctxVars, currentIter, attempt,
                   iterErr, prePassMap, timerFired, agentVars, envVars, mgrVars, histVars>>

\* runIterationWithRetry: "Check if stopped during delay"
runIterationWithRetry_StopCheck ==
    /\ pcL = "stopCheck"
    /\ pcL' = IF stopped THEN "reconcile" ELSE "iterSetup"
    /\ UNCHANGED sideVars
    /\ UNCHANGED lastErr
    /\ UNCHANGED <<loopFields, ctxVars, currentIter, attempt, iterErr, prePassMap,
                   runExit, timerFired, agentVars, envVars, mgrVars, evVars, histVars>>

\* ------------------------------------------------ Loop.runIteration
\* runIteration: iterCtx and cancelFunc are set up, then RunAgent starts its goroutine
runIteration_Setup ==
    /\ pcL = "iterSetup"
    /\ cancelFunc' = TRUE
    /\ iterCtxDone' = FALSE
    /\ pcA' = "roundCheck" /\ round' = 0 /\ ch' = <<>> /\ chClosed' = FALSE
    /\ toolsLeft' = 0 /\ deltasLeft' = MaxDeltas /\ batchesLeft' = MaxToolBatches
    /\ toolCancelled' = FALSE
    /\ agentCalls' = agentCalls + 1
    /\ pcL' = "iterRecv"
    /\ UNCHANGED sideVars
    /\ UNCHANGED lastErr
    /\ UNCHANGED <<iteration, stopped, paused, eventsClosed, ctxDone, currentIter, attempt,
                   iterErr, prePassMap, runExit, timerFired, abandonedTools, envVars,
                   mgrVars, evVars, pauseIter, resumedFrom, stopAt>>

\* runIteration returns: the deferred cancel() and cancelFunc = nil
ReturnFromIteration(err) ==
    /\ cancelFunc' = FALSE
    /\ iterCtxDone' = TRUE
    /\ iterErr' = err
    /\ pcL' = "afterIter"

\* the agent goroutine that runIteration leaves behind when it returns before the
\* stream is closed: it runs the tool calls it still has (RunAgent's tool loop checks
\* no context), or those of the batch its chat turn may still deliver
Abandon ==
    \E n \in 0..MaxBatch :
        /\ CASE pcA \in {"tools", "toolExec"} -> n = toolsLeft
             [] pcA = "chat" /\ batchesLeft > 0 -> TRUE
             [] OTHER -> n = 0
        /\ abandonedTools' = abandonedTools + n
        /\ pcA' = "exited" /\ round' = 0 /\ ch' = <<>> /\ chClosed' = TRUE
        /\ toolsLeft' = 0 /\ deltasLeft' = 0 /\ batchesLeft' = 0 /\ toolCancelled' = FALSE

\* runIteration, one event of the stream
runIteration_Recv ==
    /\ pcL = "iterRecv"
    /\ ch # <<>>
    /\ LET event == Head(ch) IN
       CASE event \in {"error", "protocol"} ->
              /\ ReturnFromIteration(~(stopped \/ iterCtxErr))
              /\ lastErr' = IF stopped \/ iterCtxErr THEN lastErr ELSE event
              /\ ch' = Tail(ch)
              /\ UNCHANGED <<pcA, round, chClosed, toolsLeft, deltasLeft, batchesLeft,
                             toolCancelled, abandonedTools, evVars>>
         [] event = "marker" ->
              /\ Send(EvComplete(iteration))
              /\ ReturnFromIteration(FALSE)
              /\ Abandon
              /\ UNCHANGED lastErr
         [] OTHER ->
              /\ CASE event = "status" -> Send(Ev("StoryStarted", iteration))
                   [] event = "plain"  -> Send(Ev("AssistantText", iteration))
                   [] event = "tool"   -> Send(Ev("ToolStart", iteration))
                   [] event = "result" -> Send(Ev("ToolResult", iteration))
                   [] OTHER            -> UNCHANGED evVars
              /\ ch' = Tail(ch)
              /\ UNCHANGED lastErr
              /\ UNCHANGED <<cancelFunc, iterCtxDone, iterErr, pcL, pcA, round, chClosed,
                             toolsLeft, deltasLeft, batchesLeft, toolCancelled,
                             abandonedTools>>
    /\ UNCHANGED sideVars
    /\ UNCHANGED <<iteration, stopped, paused, eventsClosed, ctxDone, currentIter, attempt,
                   prePassMap, runExit, timerFired, envVars, mgrVars, histVars>>

\* runIteration, the stream is closed and drained
runIteration_RecvClosed ==
    /\ pcL = "iterRecv"
    /\ ch = <<>>
    /\ chClosed
    /\ ReturnFromIteration(FALSE)
    /\ UNCHANGED sideVars
    /\ UNCHANGED lastErr
    /\ UNCHANGED <<iteration, stopped, paused, eventsClosed, ctxDone, currentIter, attempt,
                   prePassMap, runExit, timerFired, agentVars, envVars, mgrVars, evVars,
                   histVars>>

\* runIterationWithRetry, after runIteration returned
runIterationWithRetry_AfterIter ==
    /\ pcL = "afterIter"
    /\ iterErr' = FALSE
    /\ IF ~iterErr
       THEN pcL' = "reconcile" /\ UNCHANGED <<attempt, evVars, runExit, eventsClosed>>
       ELSE IF ctxDone
       THEN RunFails("ctx", "ctx") /\ UNCHANGED attempt
       ELSE IF stopped
       THEN pcL' = "reconcile" /\ UNCHANGED <<attempt, evVars, runExit, eventsClosed>>
       ELSE /\ attempt' = attempt + 1
            /\ pcL' = "retryTop"
            /\ UNCHANGED <<evVars, runExit, eventsClosed>>
    /\ UNCHANGED sideVars
    /\ UNCHANGED lastErr
    /\ UNCHANGED <<iteration, stopped, paused, cancelFunc, ctxVars, currentIter,
                   prePassMap, timerFired, agentVars, envVars, mgrVars, histVars>>

\* ------------------------------------------------ Run, after the iteration
\* autoPushIfStoryCompleted: a story passes in the file and did not in the snapshot
NewlyCompleted == \E s \in Stories : filePasses[s] /\ ~prePassMap[s]

\* Run: the PRD file is synced into the store, and autoPushIfStoryCompleted
\* announces the push when a story was newly completed in a git repository
Run_Reconcile ==
    /\ pcL = "reconcile"
    /\ IF hasStore
       THEN /\ storePasses' = filePasses
            /\ IF isGitRepo /\ NewlyCompleted
               THEN Send(Ev("AssistantText", 0)) /\ pcL' = "push"
               ELSE pcL' = "postIter" /\ UNCHANGED evVars
       ELSE /\ pcL' = "postIter"
            /\ UNCHANGED <<storePasses, evVars>>
    /\ UNCHANGED sideVars
    /\ UNCHANGED lastErr
    /\ UNCHANGED <<loopFields, ctxVars, currentIter, attempt, iterErr, prePassMap, runExit,
                   timerFired, agentVars, filePasses, hasStore, isGitRepo, maxIter, mgrVars,
                   histVars>>

\* autoPushIfStoryCompleted: git.CommitAndPush and the event that reports it
autoPushIfStoryCompleted_Push ==
    /\ pcL = "push"
    /\ \E pushed \in BOOLEAN :
         IF pushed THEN Send(Ev("AssistantText", 0)) ELSE Send(EvErr(0, "push"))
    /\ pcL' = "postIter"
    /\ UNCHANGED sideVars
    /\ UNCHANGED lastErr
    /\ UNCHANGED <<loopFields, ctxVars, currentIter, attempt, iterErr, prePassMap, runExit,
                   timerFired, agentVars, envVars, mgrVars, histVars>>

\* Run: the check of ctx, then the completion check on the loaded PRD
Run_PostIter ==
    /\ pcL = "postIter"
    /\ IF ctxDone
       THEN Return("ctx") /\ UNCHANGED evVars
       ELSE \E loaded \in BOOLEAN :
              IF ~loaded
              THEN Send(EvErr(0, "load")) /\ Return("error")
              ELSE IF AllComplete(loadPRD)
              THEN Send(EvComplete(currentIter)) /\ Return("complete")
              ELSE pcL' = "pauseCheck" /\ UNCHANGED <<evVars, runExit, eventsClosed>>
    /\ UNCHANGED sideVars
    /\ UNCHANGED lastErr
    /\ UNCHANGED <<iteration, stopped, paused, cancelFunc, ctxVars, currentIter, attempt,
                   iterErr, prePassMap, timerFired, agentVars, envVars, mgrVars, histVars>>

\* Run: "Check pause flag after iteration"
Run_PauseCheck ==
    /\ pcL = "pauseCheck"
    /\ IF paused
       THEN Return("paused")
       ELSE pcL' = "top" /\ UNCHANGED <<runExit, eventsClosed>>
    /\ UNCHANGED sideVars
    /\ UNCHANGED lastErr
    /\ UNCHANGED <<iteration, stopped, paused, cancelFunc, ctxVars, currentIter, attempt,
                   iterErr, prePassMap, timerFired, agentVars, envVars, mgrVars, evVars,
                   histVars>>

\* ------------------------------------------------ agent.RunAgent, goroutine
\* a goroutine that ends without closing its channel
AgentExit_NoClose ==
    /\ pcA' = "exited" /\ UNCHANGED chClosed
    /\ round' = 0 /\ toolsLeft' = 0 /\ deltasLeft' = 0 /\ batchesLeft' = 0
    /\ toolCancelled' = FALSE

\* the goroutine ends: defer close(ch)
AgentExit ==
    /\ pcA' = "exited" /\ chClosed' = TRUE
    /\ round' = 0 /\ toolsLeft' = 0 /\ deltasLeft' = 0 /\ batchesLeft' = 0
    /\ toolCancelled' = FALSE

\* a tool call's effect on the PRD file: none (s = 0), or an edit of prd.json
\* that sets passes of story s
ToolEffect(s) ==
    filePasses' = IF s = 0 THEN filePasses ELSE [filePasses EXCEPT ![s] = TRUE]

\* RunAgent, top of the round loop: the round limit, then the check of the context
RunAgent_RoundCheck ==
    /\ pcL # "panic"
    /\ pcA = "roundCheck"
    /\ Len(ch) < AgentChanCap
    /\ IF round >= MaxToolRounds \/ iterCtxErr
       THEN ch' = Append(ch, "error") /\ AgentExit
       ELSE /\ pcA' = "chat"
            /\ UNCHANGED <<round, ch, chClosed, toolsLeft, deltasLeft, batchesLeft,
                           toolCancelled>>
    /\ UNCHANGED sideVars
    /\ UNCHANGED lastErr
    /\ UNCHANGED <<loopFields, ctxVars, runLocals, abandonedTools, envVars, mgrVars,
                   evVars, histVars>>

\* RunAgent, a text delta of the chat stream is forwarded: plain text, text with the
\* complete marker, or text with a story status tag
RunAgent_TextDelta ==
    /\ pcL # "panic"
    /\ pcA = "chat"
    /\ deltasLeft > 0
    /\ Len(ch) < AgentChanCap
    /\ \E text \in {"plain", "marker", "status"} : ch' = Append(ch, text)
    /\ deltasLeft' = deltasLeft - 1
    /\ UNCHANGED sideVars
    /\ UNCHANGED lastErr
    /\ UNCHANGED <<loopFields, ctxVars, runLocals, pcA, round, chClosed, toolsLeft,
                   batchesLeft, toolCancelled, abandonedTools, envVars, mgrVars, evVars,
                   histVars>>

\* RunAgent, the chat stream fails: a transport error or a cancelled request
\* ("error"), or a chunk that does not parse ("protocol"); the stream error is sent
\* on and the goroutine returns
RunAgent_StreamError ==
    /\ pcL # "panic"
    /\ pcA = "chat"
    /\ Len(ch) < AgentChanCap
    /\ \E e \in {"error", "protocol"} : ch' = Append(ch, e)
    /\ AgentExit
    /\ UNCHANGED sideVars
    /\ UNCHANGED lastErr
    /\ UNCHANGED <<loopFields, ctxVars, runLocals, abandonedTools, envVars, mgrVars,
                   evVars, histVars>>

\* RunAgent, the chat stream completes with n tool calls: none ends the invocation
\* with Done, otherwise the batch is executed
RunAgent_StreamEnd ==
    /\ pcL # "panic"
    /\ pcA = "chat"
    /\ Len(ch) < AgentChanCap
    /\ \E n \in 0..MaxBatch :
         /\ n > 0 => batchesLeft > 0
         /\ IF n = 0
            THEN ch' = Append(ch, "done") /\ AgentExit
            ELSE /\ toolsLeft' = n
                 /\ batchesLeft' = batchesLeft - 1
                 /\ pcA' = "tools"
                 /\ UNCHANGED <<round, ch, chClosed, deltasLeft, toolCancelled>>
    /\ UNCHANGED sideVars
    /\ UNCHANGED lastErr
    /\ UNCHANGED <<loopFields, ctxVars, runLocals, abandonedTools, envVars, mgrVars,
                   evVars, histVars>>

\* RunAgent, the next tool call of the batch: the ToolName event, then tools.Execute
\* begins.  toolCancelled records whether Stop() had cancelled the context by then.
RunAgent_ToolStart ==
    /\ pcL # "panic"
    /\ pcA = "tools"
    /\ Len(ch) < AgentChanCap
    /\ ch' = Append(ch, "tool")
    /\ pcA' = "toolExec"
    /\ toolCancelled' = (stopped /\ iterCtxErr)
    /\ UNCHANGED sideVars
    /\ UNCHANGED lastErr
    /\ UNCHANGED <<loopFields, ctxVars, runLocals, round, chClosed, toolsLeft, deltasLeft,
                   batchesLeft, abandonedTools, envVars, mgrVars, evVars, histVars>>

\* RunAgent, tools.Execute returns: the ToolResult event; after the last call of the
\* batch the next round begins
RunAgent_ToolFinish ==
    /\ pcL # "panic"
    /\ pcA = "toolExec"
    /\ Len(ch) < AgentChanCap
    /\ \E s \in 0..NumStories : ToolEffect(s)
    /\ ch' = Append(ch, "result")
    /\ toolsLeft' = toolsLeft - 1
    /\ IF toolsLeft = 1
       THEN round' = round + 1 /\ pcA' = "roundCheck"
       ELSE pcA' = "tools" /\ UNCHANGED round
    /\ UNCHANGED sideVars
    /\ UNCHANGED lastErr
    /\ UNCHANGED <<loopFields, ctxVars, runLocals, chClosed, deltasLeft, batchesLeft,
                   toolCancelled, abandonedTools, storePasses, hasStore, isGitRepo, maxIter,
                   mgrVars, evVars, histVars>>

\* a tool call run by an agent goroutine whose stream nobody reads any more
RunAgent_AbandonedTool ==
    /\ pcL # "panic"
    /\ abandonedTools > 0
    /\ \E s \in 0..NumStories : ToolEffect(s)
    /\ abandonedTools' = abandonedTools - 1
    /\ UNCHANGED sideVars
    /\ UNCHANGED lastErr
    /\ UNCHANGED <<loopFields, ctxVars, runLocals, pcA, round, ch, chClosed, toolsLeft,
                   deltasLeft, batchesLeft, toolCancelled, storePasses, hasStore,
                   isGitRepo, maxIter, mgrVars, evVars, histVars>>

\* ------------------------------------------------------------------ system
Next ==
    \/ handleAgentStart
    \/ ManagerPause
    \/ ManagerStop
    \/ ManagerRunExit
    \/ CancelCtx
    \/ Run_OpenLog
    \/ Run_Top
    \/ Run_IterStart
    \/ runIterationWithRetry_Top
    \/ TimeAfter
    \/ runIterationWithRetry_WaitTimer
    \/ runIterationWithRetry_WaitCtx
    \/ runIterationWithRetry_StopCheck
    \/ runIteration_Setup
    \/ runIteration_Recv
    \/ runIteration_RecvClosed
    \/ runIterationWithRetry_AfterIter
    \/ Run_Reconcile
    \/ autoPushIfStoryCompleted_Push
    \/ Run_PostIter
    \/ Run_PauseCheck
    \/ RunAgent_RoundCheck
    \/ RunAgent_TextDelta
    \/ RunAgent_StreamError
    \/ RunAgent_StreamEnd
    \/ RunAgent_ToolStart
    \/ RunAgent_ToolFinish
    \/ RunAgent_AbandonedTool

Spec == Init /\ [][Next]_vars

\* the loop of a server with a store, in a git repository, with one iteration allowed
LiveInit ==
    /\ Init
    /\ hasStore /\ isGitRepo /\ maxIter = 1
    /\ filePasses = [s \in Stories |-> FALSE]

\* the loop under the scheduling of its goroutines: the Run goroutine and the
\* RunAgent goroutine take their next steps, a chat request ends (the HTTP client has
\* a timeout, and a cancelled request fails), every tool execution ends, and the
\* timer of a retry delay fires.
LiveSpec ==
    /\ LiveInit
    /\ [][Next]_vars
    /\ WF_vars(\/ Run_OpenLog \/ Run_Top \/ Run_IterStart
               \/ runIterationWithRetry_Top \/ runIterationWithRetry_WaitTimer
               \/ runIterationWithRetry_WaitCtx \/ runIterationWithRetry_StopCheck
               \/ runIteration_Setup \/ runIteration_Recv \/ runIteration_RecvClosed
               \/ runIterationWithRetry_AfterIter \/ Run_Reconcile
               \/ autoPushIfStoryCompleted_Push \/ Run_PostIter \/ Run_PauseCheck)
    /\ WF_vars(\/ RunAgent_RoundCheck \/ RunAgent_StreamError \/ RunAgent_StreamEnd
               \/ RunAgent_ToolStart \/ RunAgent_ToolFinish)
    /\ WF_vars(TimeAfter)

\* ================================================================ claims

\* C1: whenever the loop sends a Complete event, every story of its PRD has
\* passes = true at that moment.
C1_CompleteImpliesAllPass ==
    lastEvent.type = "Complete" => lastEvent.allPass

\* C2: Complete is terminal for a run: after a Complete event the run sends no
\* IterationStart and no second Complete.
C2_CompleteIsTerminal ==
    /\ completes <= 1
    /\ lastEvent.type = "IterationStart" => completes = 0

\* C3: an agent invocation that is in progress once Stop() has been called has its
\* per-iteration context cancelled.
C3_StopCancelsInFlight ==
    (stopped /\ pcL = "iterRecv" /\ pcA # "exited") => iterCtxErr

\* C4: after a stop during a tool execution the driver starts no further tool
\* execution: no tool call is executing that was started after that stop had
\* cancelled the context.
C4_NoToolAfterStop ==
    ~(stopAt = "tool" /\ pcA = "toolExec" /\ toolCancelled)

\* C5: cancellation is not an error: no Error event reports the cancellation of the
\* context.
C5_CancellationIsNotAnError ==
    lastEvent.type = "Error" => lastEvent.err # "ctx"

\* the loop leaves the wait of the retry back-off
runIterationWithRetry_WaitLeave ==
    runIterationWithRetry_WaitTimer \/ runIterationWithRetry_WaitCtx

\* C6: a Stop() issued during the retry back-off ends the wait: after it, the loop
\* can leave the wait whether or not the delay has elapsed.
C6_StopAbortsBackoff ==
    (pcL = "retryWait" /\ stopAt = "wait") => ENABLED runIterationWithRetry_WaitLeave

\* C7: pause is cooperative: a pause requested during iteration n does not cancel the
\* agent invocation in flight, and while it is pending the loop does not go on to
\* iteration n+1 and sends no IterationStart(n+1).
C7_PauseIsCooperative ==
    /\ (paused /\ pauseIter > 0) => (iteration = pauseIter /\ lastIterStart <= pauseIter)
    /\ (paused /\ ~stopped /\ ~ctxDone /\ pcL = "iterRecv") => ~iterCtxDone

\* C7 witness: a pause requested during iteration 1, with the agent running, took
\* effect after the iteration had run to its end
C7_Witness ==
    /\ paused /\ pauseIter = 1 /\ ~stopped /\ ~ctxDone
    /\ pcL = "returned" /\ runExit = "paused"
    /\ lastIterStart = 1 /\ agentCalls >= 1

\* C8: after a pause took effect at the end of iteration n < max_iter, the resumed
\* run reaches iteration n+1 having sent IterationStart(n+1), and goes on.
C8_ResumeEmitsNextIterationStart ==
    (resumedFrom > 0 /\ resumedFrom < maxIter /\ iteration = resumedFrom + 1
        /\ pcL # "iterStart")
    => (pcL # "panic" /\ lastIterStart = resumedFrom + 1)

C10_RetryBudget ==
    /\ retryEvents <= MaxRetries
    /\ agentCalls <= MaxRetries + 1
    /\ lastEvent.type = "Retrying" =>
         (lastEvent.retryCount = retryEvents /\ lastEvent.retryMax = MaxRetries)

\* C10 witness: an iteration that used its whole budget
C10_Witness ==
    retryEvents = MaxRetries /\ agentCalls = MaxRetries + 1

\* C11: the runs of a Loop send at most maxIter IterationStart events, none numbered above
\* maxIter; with maxIter = 0 it sends none and invokes no agent; a run that ends at
\* the cap has MaxIterationsReached, carrying maxIter, as its last event, not an Error.
C11_IterationCap ==
    /\ iterStarts <= maxIter /\ lastIterStart <= maxIter
    /\ maxIter = 0 => (agentCalls = 0 /\ pcA = "exited")
    /\ (pcL = "returned" /\ runExit = "maxiter") =>
         (lastEvent.type = "MaxIterationsReached" /\ lastEvent.iter = maxIter)
    /\ lastEvent.type = "MaxIterationsReached" => runExit = "maxiter"

\* C11 witness: a run that sent maxIter IterationStart events and then ended at the cap
C11_Witness ==
    /\ pcL = "returned" /\ runExit = "maxiter" /\ maxIter = MaxIter
    /\ iterStarts = maxIter /\ lastEvent.type = "MaxIterationsReached"

\* C12: the IterationStart events of a Loop are numbered 1, 2, ... with none sent
\* twice (none on a retry), and every text, tool, StoryStarted and Retrying event
\* follows the IterationStart of its iteration and carries that iteration's number.
C12_EventOrdering ==
    /\ iterStarts = lastIterStart
    /\ lastEvent.type \in {"AssistantText", "ToolStart", "ToolResult", "StoryStarted",
                           "Retrying"} =>
         (lastIterStart >= 1 /\ lastEvent.iter = lastIterStart)
\* C13: progress is monotonic: the loop's sync takes the passes of no stored story
\* from true back to false.
C13_ProgressMonotonic ==
    [][op'.name = "Run" =>
         \A id \in DOMAIN userStories : userStories[id].passes => userStories'[id].passes]_vars

\* C14: after Run's sync that follows an iteration without error (and that saved
\* under the project's own id), the stories stored for the project are those of the
\* PRD file, identifier for identifier, each with the file's passes and in_progress.
C14_Reconciliation ==
    (op.name = "Run" /\ op.project = ThePRD) =>
        LET stories == GetStories(userStories, ThePRD)
        IN  /\ DOMAIN stories = DOMAIN prdFile
            /\ \A id \in DOMAIN prdFile :
                 /\ stories[id].passes = prdFile[id].passes
                 /\ stories[id].inProgress = prdFile[id].inProgress

\* C15: story identifiers are scoped to a project: a SaveStory for project p makes
\* the story one of GetStories(p) and leaves GetStories(q) of every other project q.
C15_StoryIdsScopedToProject ==
    [][op'.name = "SaveStory" =>
         /\ op'.id \in DOMAIN GetStories(userStories', op'.project)
         /\ \A q \in Projects \ {op'.project} :
              GetStories(userStories', q) = GetStories(userStories, q)]_vars

\* C16: every load for read returns the stories of the PRD file with the file's
\* specification fields; passes and in_progress come from the store for the stories
\* whose identifier the store holds for the project, from the file for the others.
C16_LoadAndOverlay ==
    op.name \in {"handlePRDGet", "handlePRDGet after sync", "loadPRD"} =>
        LET stories == GetStories(userStories, ThePRD)
        IN  /\ DOMAIN loadedPRD = DOMAIN prdFile
            /\ \A id \in DOMAIN prdFile :
                 /\ loadedPRD[id].title = prdFile[id].title
                 /\ loadedPRD[id].passes =
                      IF id \in DOMAIN stories THEN stories[id].passes ELSE prdFile[id].passes
                 /\ loadedPRD[id].inProgress =
                      IF id \in DOMAIN stories THEN stories[id].inProgress
                      ELSE prdFile[id].inProgress

\* C17: round trip: the PRD file saved to the store and loaded again through the
\* overlay has, for every story, the passes and in_progress of the file.
C17_RoundTrip ==
    op.name = "handlePRDGet after sync" =>
        /\ DOMAIN loadedPRD = DOMAIN prdFile
        /\ \A id \in DOMAIN prdFile :
             /\ loadedPRD[id].passes = prdFile[id].passes
             /\ loadedPRD[id].inProgress = prdFile[id].inProgress

\* C17 witness: a round trip of a PRD with two stories, one passing and one in
\* progress, through a store that already held the project
C17_Witness ==
    /\ op.name = "handlePRDGet after sync"
    /\ DOMAIN prdFile = StoryIds
    /\ \E id \in StoryIds : loadedPRD[id].passes /\ ~loadedPRD[id].inProgress
    /\ \E id \in StoryIds : ~loadedPRD[id].passes /\ loadedPRD[id].inProgress
    /\ DOMAIN GetStories(userStories, ThePRD) = StoryIds

\* C18: branch isolation: every file written by a tool call or by the loop is under
\* the worktree path.
C18_BranchIsolation ==
    writer \in {"Write", "Edit", "logLine"} => Under(written, WorkDir)

\* C19: CommitAndPush with no file changed since the last commit creates no commit
\* and pushes nothing: the heads of the branch and of the remote stay.
C19_CommitAndPushNoOp ==
    [][(gitOp'.name = "CommitAndPush" /\ changes = "none") =>
         (localHead' = localHead /\ remoteHead' = remoteHead)]_vars

C21_ProtocolErrorNotRetried ==
    lastErr = "protocol" =>
        /\ lastEvent.type # "Retrying"
        /\ pcL \notin {"iterSetup", "iterRecv"}
\* C22: when tools.Execute returns a fatal error, the driver sends an Error event
\* and ends the invocation instead of going on with the round loop.
C22_FatalToolErrorSurfaced ==
    execErr => (lastAgentEvent.err # "none" /\ drvPc = "closed")

\* C28: an invocation of the driver issues at most max_tool_rounds chat requests and
\* ends with exactly one terminal event, its last event before the stream closes:
\* Done when a round returned no tool calls, Error when max_tool_rounds rounds all
\* asked for tools.
C28_RoundsBoundedOneTerminal ==
    /\ chatRequests <= maxToolRounds
    /\ drvPc # "closed" => terminalEvents = 0
    /\ drvPc = "closed" =>
         /\ terminalEvents = 1
         /\ lastAgentEvent.done \/ lastAgentEvent.err # "none"
         /\ lastAgentEvent.done <=> (lastAgentEvent.err = "none" /\ toolCalls = <<>>)
         /\ toolRounds = maxToolRounds => lastAgentEvent.err = "rounds"
         /\ lastAgentEvent.err = "rounds" =>
              (toolRounds = maxToolRounds /\ chatRequests = maxToolRounds)

\* C28 witness: every one of the max_tool_rounds rounds asked for tools and the
\* invocation has ended
C28_Witness ==
    /\ drvPc = "closed" /\ maxToolRounds = MaxOptRounds
    /\ toolRounds = maxToolRounds /\ chatRequests = maxToolRounds
    /\ lastAgentEvent.err = "rounds" /\ terminalEvents = 1


\* C29: the tool events of the loop are paired and sequential: every ToolStart is
\* followed by exactly one ToolResult before the next ToolStart, one pair for each
\* tool call in the order received, whatever the output of the tool is.
C29_ToolEventsPaired ==
    LET ToolEvents == SelectSeq(loopEvents, LAMBDA t : t \in {"ToolStart", "ToolResult"})
    IN  /\ \A i \in 1..Len(ToolEvents) :
             ToolEvents[i] = IF i % 2 = 1 THEN "ToolStart" ELSE "ToolResult"
        /\ (drvPc \in {"roundCheck", "closed"} /\ toolCalls # <<>>) =>
             Len(ToolEvents) = 2 * Len(toolCalls)
        /\ drvPc = "tools" => Len(ToolEvents) = 2 * (tcIndex - 1)
        /\ drvPc = "exec" => Len(ToolEvents) = 2 * tcIndex - 1

\* C30: in the history, the assistant message with k tool calls is followed by k
\* tool messages in the order of the calls, the i-th keyed by the tool_call_id of
\* the i-th call, and every tool message identifies exactly one call.
C30_ToolMessagesKeyed ==
    /\ Len(toolMsgs) <= Len(toolCalls)
    /\ (drvPc \in {"roundCheck", "closed"} /\ toolCalls # <<>>) =>
         Len(toolMsgs) = Len(toolCalls)
    /\ \A i \in 1..Len(toolMsgs) :
         /\ toolMsgs[i] = toolCalls[i].id
         /\ Cardinality({j \in 1..Len(toolCalls) : toolCalls[j].id = toolMsgs[i]}) = 1
\* C23: tools.Execute returns a fatal error only when the arguments do not parse or
\* the working directory is invalid; every other failure is in the output string.
C23_FatalOnlyOnParseOrWorkDir ==
    (execCall.tool # "none" /\ execResult.kind = "fatal") =>
        (~execCall.parseOk \/ ~execCall.workDirOk)

\* C24: Edit changes the file only by replacing the first occurrence of old_string
\* by new_string; when old_string does not occur the file is unchanged and the error
\* is a string of the output; with old_string equal to new_string the content is
\* unchanged.
C24_EditReplacesFirstOccurrence ==
    (execCall.tool = "Edit" /\ execCall.parseOk) =>
        LET c == execCall
            positions == {i \in 0..Len(c.content) :
                            /\ i + Len(c.oldString) <= Len(c.content)
                            /\ SubSeq(c.content, i + 1, i + Len(c.oldString))
                                 = c.oldString}
        IN  /\ execResult.kind \in {"output", "toolError"}
            /\ positions = {} =>
                 (execResult.kind = "toolError" /\ execResult.fileAfter = c.content)
            /\ execResult.kind = "toolError" => execResult.fileAfter = c.content
            /\ c.oldString = c.newString => execResult.fileAfter = c.content
            /\ execResult.kind = "output" =>
                 \E i \in positions :
                    /\ \A j \in positions : i <= j
                    /\ execResult.fileAfter =
                         SubSeq(c.content, 1, i) \o c.newString
                         \o SubSeq(c.content, i + Len(c.oldString) + 1, Len(c.content))

\* C24 witness: an Edit of a file in which old_string occurs twice replaced the
\* first occurrence and left the second
C24_Witness ==
    /\ execCall.tool = "Edit" /\ execResult.kind = "output"
    /\ execCall.content = <<"a", "b", "a">>
    /\ execCall.oldString = <<"a">> /\ execCall.newString = <<"b">>
    /\ execResult.fileAfter = <<"b", "b", "a">>

\* C27: no panic leaves tools.Execute: a Read with any start_line and end_line
\* returns an output string or a fatal error.
C27_ReadNeverPanics ==
    execCall.tool = "Read" => execResult.kind \in {"output", "toolError", "fatal"}
\* C25: under the Merge policy, every story of the resulting PRD whose id was in the
\* old PRD keeps the old passes and in_progress, the ids that are not in the new PRD
\* are dropped, and every story with a new id has no progress.
C25_MergeKeepsProgress ==
    [][(convert'.err = "none" /\ prdJson.valid
          /\ (convert'.merge \/ convert'.choice = "merge")) =>
         LET old == prdJson.stories
             result == prdJson'.stories
         IN  /\ prdJson'.valid
             /\ DOMAIN result = DOMAIN convert'.new
             /\ \A id \in DOMAIN result :
                  result[id] = IF id \in DOMAIN old
                               THEN old[id]
                               ELSE [passes |-> FALSE, inProgress |-> FALSE]]_vars

\* C26: under the Cancel policy the old PRD file is untouched: prd.json after the
\* cancelled conversion is what it was before the conversion began.
C26_CancelKeepsOldFile ==
    [][convert'.choice = "cancel" => prdJson' = prdJson]_vars

\* C39: every return path of Run closes the loop's event channel exactly once: when
\* Run has returned the channel is closed, also when Run failed before its first
\* iteration, and no return closes a channel that is closed already.
C39_RunClosesEventsOnce ==
    /\ pcL = "returned" => eventsClosed
    /\ pcL # "panic"

\* C32: auto-commit happens once per iteration that produced a newly passing story:
\* after an iteration that ended without error, commit-and-push is attempted (once)
\* exactly when the working directory is a git repository and some story passes in
\* the PRD file that did not pass in the snapshot taken when the iteration began.
C32_AutoCommitOncePerIteration ==
    [][(pcL = "reconcile" /\ pcL' # "reconcile") =>
         (pcL' = "push" <=>
            (isGitRepo /\ \E s \in Stories : filePasses[s] /\ ~prePassMap[s]))]_vars

\* C37: once Stop() has been called on a loop, its run writes nothing to the store,
\* attempts no commit and no push, and sends no Complete event.
C37_NoWorkAfterStop ==
    [][stopped =>
         /\ ~(pcL = "reconcile" /\ hasStore /\ pcL' # "reconcile")
         /\ ~(pcL = "push" /\ pcL' # "push")
         /\ completes' <= completes]_vars

\* C38: Stop is eventually effective: with the consumer draining the events and every
\* tool execution ending, a Run call that is executing when Stop() is called (the
\* events channel of its Loop is open) eventually returns.
C38_StopEventuallyEffective ==
    (stopped /\ ~eventsClosed) ~> (pcL \in {"returned", "idle"})

\* C38 witness: a run stopped while a tool call was executing has returned
C38_Witness ==
    /\ stopped /\ stopAt = "tool" /\ agentCalls >= 1
    /\ pcL = "returned" /\ runExit = "stopped"
\* C35: SaveProject is an upsert by name: a sync whose project exists already gets
\* from SaveProject the id that GetProjectID reports for the name (the project's own
\* id), so the stories it then saves belong to that project.
C35_SaveProjectUpsert ==
    op.name \in {"handleAgentStart", "Run"} =>
        /\ op.project = ThePRD
        /\ \A id \in DOMAIN prdFile : id \in DOMAIN GetStories(userStories, ThePRD)
\* C34: DeleteProject cascades atomically: after it returned nil the project row, the
\* stories of the project and the log lines recorded under the name are gone; after
\* it failed none of them is removed; the rows of the other projects are as before.
C34_DeleteProjectCascades ==
    [][/\ op'.name = "DeleteProject" =>
            /\ op'.project \notin projects'
            /\ op'.project \notin agentLogs'
            /\ \A i \in DOMAIN userStories' : userStories'[i].project_id # op'.project
       /\ op'.name = "DeleteProjectFailed" =>
            UNCHANGED <<projects, userStories, agentLogs>>
       /\ op'.name \in {"DeleteProject", "DeleteProjectFailed"} =>
            \A other \in Projects \ {op'.project} :
                /\ other \in projects' <=> other \in projects
                /\ other \in agentLogs' <=> other \in agentLogs
                /\ GetStories(userStories', other) = GetStories(userStories, other)]_vars

\* C33: when CreateWorktree fails in handleAgentStart, the loop that is started runs
\* in the base directory, also for an instance registered earlier with a worktree.
C33_WorktreeFallback ==
    [][(worktreeResult' = "failed" /\ ~instance.running /\ instance'.running) =>
            instance'.workDir = "base"]_vars
\* C36: from Configure on the spinner steps forward only: AdvanceStep visits
\* CreateBranch, CreateWorktree, RunSetup, Done with a setup command and CreateBranch,
\* CreateWorktree, Done without one; every step left behind is complete and not
\* active; IsDone is false until the last configured step has been advanced.
C36_SpinnerStepsForward ==
    visited # <<>> =>
        LET path == IF spinner.setupCommand # ""
                    THEN <<SpinnerStepCreateBranch, SpinnerStepCreateWorktree,
                           SpinnerStepRunSetup, SpinnerStepDone>>
                    ELSE <<SpinnerStepCreateBranch, SpinnerStepCreateWorktree,
                           SpinnerStepDone>>
        IN  /\ \A i \in 1..(Len(visited) - 1) : visited[i] < visited[i + 1]
            /\ \A i \in 1..Len(visited) : i <= Len(path) => visited[i] = path[i]
            /\ visited[Len(visited)] = spinner.currentStep
            /\ \A k \in 1..Len(spinner.steps) :
                  k - 1 < spinner.currentStep =>
                      spinner.steps[k].complete /\ ~spinner.steps[k].active
            /\ IsDone(spinner) <=> Len(visited) - 1 >= Len(spinner.steps)

C36_Witness ==
    /\ visited = <<SpinnerStepCreateBranch, SpinnerStepCreateWorktree, SpinnerStepDone>>
    /\ spinner.setupCommand = ""
    /\ IsDone(spinner)
    /\ \A k \in 1..Len(spinner.steps) : spinner.steps[k].complete
\* C31: once RunAgent has received the Done event of a turn, the tool calls it has
\* been given are the tool calls of all the chunks of the turn, in the order of their
\* arrival, none lost and none twice; before that it is given none that did not arrive.
C31_ToolCallsDelivered ==
    /\ doneReceived => collectedToolCalls = arrived
    /\ Len(collectedToolCalls) <= Len(arrived)
    /\ SubSeq(arrived, 1, Len(collectedToolCalls)) = collectedToolCalls

C31_Witness ==
    /\ doneReceived
    /\ scanned = MaxChunks
    /\ Len(arrived) > MaxChunkCalls
    /\ arrived[1] # arrived[2]
    /\ collectedToolCalls = arrived

\* C40: when the text deltas of the iteration, put together, contain the marker and
\* the loop has read all of them, it has sent Complete, however the text was split.
C40_MarkerIndependentOfChunking ==
    (Contains(textBuilder, Marker) /\ streamClosed /\ streamCh = <<>> /\ agentCh = <<>>)
        => completeSent

====
